---- MODULE Spec2Model ----
(***************************************************************************)
(* A model of the lessons knowledge base: the entry normalizer and corpus  *)
(* scanner (scripts/tools/lessons_lib.py), the promotion engine            *)
(* (scripts/tools/promote_lesson.py), the index builder                    *)
(* (scripts/tools/update_lessons_index.py) and the preflight selector      *)
(* (scripts/tools/agent_lessons_preflight.py).                             *)
(*                                                                         *)
(* Python strings are modelled as sequences of one-character strings, so   *)
(* that strip, split, join, lower, substring search, the regular           *)
(* expressions of the code and the front matter round trip are computed    *)
(* the way the code computes them.                                         *)
(*                                                                         *)
(* What the model leaves out: the texts hold printable ASCII only (no tab, *)
(* no newline inside a line); a date is read in the form YYYY-MM-DD only;  *)
(* the clock is read to the day, so generatedAt is the day of the run; of  *)
(* a promoted document's body the lines after its first paragraph, which   *)
(* no reader of the corpus reads, are not kept; where runs overlap, each   *)
(* access to the file system (a scan, a test of a path, a write) is one    *)
(* step; int() reads a text of ASCII digits with an optional sign (no      *)
(* digit grouping by underscores).                                         *)
(***************************************************************************)
EXTENDS Integers, Sequences, FiniteSets, TLC

----------------------------------------------------------------------------
(* Characters and strings                                                  *)

\* The printable ASCII characters, code points 32..126, in code point order.
\* Code point 96 cannot be written in a TLA+ string: its place is held by a
\* name no string of the model contains.
ASCII == <<" ", "!", "\"", "#", "$", "%", "&", "'", "(", ")", "*", "+", ",", "-", ".", "/", "0", "1", "2", "3", "4", "5", "6", "7", "8", "9", ":", ";", "<", "=", ">", "?", "@", "A", "B", "C", "D", "E", "F", "G", "H", "I", "J", "K", "L", "M", "N", "O", "P", "Q", "R", "S", "T", "U", "V", "W", "X", "Y", "Z", "[", "\\", "]", "^", "_", "<backtick>", "a", "b", "c", "d", "e", "f", "g", "h", "i", "j", "k", "l", "m", "n", "o", "p", "q", "r", "s", "t", "u", "v", "w", "x", "y", "z", "{", "|", "}", "~">>

\* ord(c) for a printable ASCII character.
Ord == [c \in {ASCII[i] : i \in 1..Len(ASCII)} |-> 31 + (CHOOSE i \in 1..Len(ASCII) : ASCII[i] = c)]

\* The characters with code points lo..hi.
CodeRange(lo, hi) == {ASCII[i - 31] : i \in lo..hi}

DigitChars == CodeRange(48, 57)

UpperChars == CodeRange(65, 90)

LowerChars == CodeRange(97, 122)

LowerAlnumChars == DigitChars \cup LowerChars

IsDigit(c) == c \in DigitChars

IsUpper(c) == c \in UpperChars

IsLowerAlnum(c) == c \in LowerAlnumChars

\* The only whitespace character of the model's alphabet is the space: no
\* input of the model contains a tab or a line break.
IsSpace(c) == c = " "

ToLower == [c \in UpperChars |-> ASCII[Ord[c] + 32 - 31]]

ToUpper == [c \in LowerChars |-> ASCII[Ord[c] - 32 - 31]]

\* str.lower() on one character.
LowerChar(c) == IF c \in UpperChars THEN ToLower[c] ELSE c

\* str.upper() on one character.
UpperChar(c) == IF c \in LowerChars THEN ToUpper[c] ELSE c

\* str.lower()
Lower(s) == [i \in 1..Len(s) |-> LowerChar(s[i])]

\* The first index from i on that holds no blank (Len(s) + 1 when none), and
\* the last index down from i that holds none (0 when none).
RECURSIVE SkipBlanks(_, _)
SkipBlanks(s, i) == IF i <= Len(s) /\ IsSpace(s[i]) THEN SkipBlanks(s, i + 1) ELSE i

RECURSIVE SkipBlanksBack(_, _)
SkipBlanksBack(s, i) == IF i >= 1 /\ IsSpace(s[i]) THEN SkipBlanksBack(s, i - 1) ELSE i

\* str.strip()
Strip(s) ==
  LET lo == SkipBlanks(s, 1)
  IN  IF lo > Len(s) THEN <<>> ELSE SubSeq(s, lo, SkipBlanksBack(s, Len(s)))

\* Python's < on strings: lexicographic by code point.
RECURSIVE StrLessFrom(_, _, _)
StrLessFrom(a, b, i) ==
  IF i > Len(a) THEN i <= Len(b)
  ELSE IF i > Len(b) THEN FALSE
  ELSE IF a[i] = b[i] THEN StrLessFrom(a, b, i + 1)
  ELSE Ord[a[i]] < Ord[b[i]]

StrLess(a, b) == StrLessFrom(a, b, 1)

\* needle in hay, for strings.
IsSubstring(needle, hay) ==
  \E i \in 0..(Len(hay) - Len(needle)) : \A k \in 1..Len(needle) : hay[i + k] = needle[k]

StartsWith(s, p) == Len(s) >= Len(p) /\ \A k \in 1..Len(p) : s[k] = p[k]

EndsWith(s, p) == Len(s) >= Len(p) /\ \A k \in 1..Len(p) : s[Len(s) - Len(p) + k] = p[k]

\* The first index from i on that holds c, 0 when there is none.
RECURSIVE IndexOf(_, _, _)
IndexOf(s, c, i) == IF i > Len(s) THEN 0 ELSE IF s[i] = c THEN i ELSE IndexOf(s, c, i + 1)

\* str.split(sep) for a one-character separator: always at least one part.
RECURSIVE SplitChar(_, _)
SplitChar(s, sep) ==
  LET k == IndexOf(s, sep, 1)
  IN  IF k = 0 THEN <<s>>
      ELSE <<SubSeq(s, 1, k - 1)>> \o SplitChar(SubSeq(s, k + 1, Len(s)), sep)

\* sep.join(parts)
RECURSIVE Join(_, _)
Join(parts, sep) ==
  IF Len(parts) = 0 THEN <<>>
  ELSE IF Len(parts) = 1 THEN parts[1]
  ELSE parts[1] \o sep \o Join(Tail(parts), sep)

\* sorted(set) for a set of strings: ascending, by code point.
RECURSIVE SortedStrs(_)
SortedStrs(S) ==
  IF S = {} THEN <<>>
  ELSE LET m == CHOOSE x \in S : \A y \in S : x = y \/ StrLess(x, y)
       IN  <<m>> \o SortedStrs(S \ {m})

Range(f) == {f[i] : i \in DOMAIN f}

----------------------------------------------------------------------------
(* Python values, as far as the front matter and the JSON index hold them  *)

\* A value is tagged with its type: t is "none", "str", "int", "bool" or
\* "list" (a list of strings); s, n and l hold the string, the number (1 and
\* 0 for True and False) and the list.
PyNone == [t |-> "none", s |-> <<>>, n |-> 0, l |-> <<>>]

PyS(s) == [t |-> "str", s |-> s, n |-> 0, l |-> <<>>]

PyI(n) == [t |-> "int", s |-> <<>>, n |-> n, l |-> <<>>]

PyB(b) == [t |-> "bool", s |-> <<>>, n |-> IF b THEN 1 ELSE 0, l |-> <<>>]

PyL(l) == [t |-> "list", s |-> <<>>, n |-> 0, l |-> l]

\* bool(v): the truth value Python's `or` tests.
Truthy(v) ==
  CASE v.t = "none" -> FALSE
    [] v.t = "str" -> v.s # <<>>
    [] v.t = "int" -> v.n # 0
    [] v.t = "bool" -> v.n = 1
    [] v.t = "list" -> v.l # <<>>

\* a or b
PyOr(a, b) == IF Truthy(a) THEN a ELSE b

DigitChar(d) == ASCII[17 + d]

RECURSIVE NatToStr(_)
NatToStr(n) == IF n < 10 THEN <<DigitChar(n)>> ELSE NatToStr(n \div 10) \o <<DigitChar(n % 10)>>

IntToStr(n) == IF n < 0 THEN <<"-">> \o NatToStr(0 - n) ELSE NatToStr(n)

RECURSIVE DigitsToNat(_)
DigitsToNat(s) ==
  IF s = <<>> THEN 0
  ELSE 10 * DigitsToNat(SubSeq(s, 1, Len(s) - 1)) + (Ord[s[Len(s)]] - 48)

AllDigits(s) == s # <<>> /\ \A i \in 1..Len(s) : IsDigit(s[i])

\* repr(s) of a string with no quote character in it.
Repr(s) == <<"'">> \o s \o <<"'">>

\* str(v)
ToStr(v) ==
  CASE v.t = "none" -> <<"N", "o", "n", "e">>
    [] v.t = "str" -> v.s
    [] v.t = "int" -> IntToStr(v.n)
    [] v.t = "bool" -> IF v.n = 1 THEN <<"T", "r", "u", "e">> ELSE <<"F", "a", "l", "s", "e">>
    [] v.t = "list" -> <<"[">> \o Join([i \in 1..Len(v.l) |-> Repr(v.l[i])], <<",", " ">>) \o <<"]">>

\* int(v): [ok |-> FALSE] where Python raises TypeError or ValueError.
\* For a string: optional surrounding blanks, an optional sign, digits.
ToInt(v) ==
  CASE v.t = "int" -> [ok |-> TRUE, n |-> v.n]
    [] v.t = "bool" -> [ok |-> TRUE, n |-> v.n]
    [] v.t = "str" ->
         LET x == Strip(v.s)
             signed == x # <<>> /\ x[1] \in {"-", "+"}
             digits == IF signed THEN Tail(x) ELSE x
         IN  IF AllDigits(digits)
             THEN [ok |-> TRUE, n |-> IF signed /\ x[1] = "-" THEN 0 - DigitsToNat(digits) ELSE DigitsToNat(digits)]
             ELSE [ok |-> FALSE, n |-> 0]
    [] OTHER -> [ok |-> FALSE, n |-> 0]

----------------------------------------------------------------------------
(* scripts/tools/lessons_lib.py                                            *)

S_case == <<"c", "a", "s", "e">>

S_pattern == <<"p", "a", "t", "t", "e", "r", "n">>

S_principle == <<"p", "r", "i", "n", "c", "i", "p", "l", "e">>

S_candidate == <<"c", "a", "n", "d", "i", "d", "a", "t", "e">>

S_validated == <<"v", "a", "l", "i", "d", "a", "t", "e", "d">>

S_canonical == <<"c", "a", "n", "o", "n", "i", "c", "a", "l">>

S_retired == <<"r", "e", "t", "i", "r", "e", "d">>

LEVELS == <<S_case, S_pattern, S_principle>>

\* LEVEL_ORDER.get(level, 99)
LEVEL_ORDER(level) ==
  IF \E i \in 1..Len(LEVELS) : LEVELS[i] = level
  THEN (CHOOSE i \in 1..Len(LEVELS) : LEVELS[i] = level) - 1
  ELSE 99

STATUS_VALUES == <<S_candidate, S_validated, S_canonical, S_retired>>

Folders == <<<<"c", "a", "s", "e", "s">>, <<"p", "a", "t", "t", "e", "r", "n", "s">>, <<"p", "r", "i", "n", "c", "i", "p", "l", "e", "s">>>>

\* FOLDER_TO_LEVEL.get(folder, "case")
FOLDER_TO_LEVEL(folder) ==
  IF folder = <<"p", "a", "t", "t", "e", "r", "n", "s">> THEN S_pattern
  ELSE IF folder = <<"p", "r", "i", "n", "c", "i", "p", "l", "e", "s">> THEN S_principle
  ELSE S_case

LEVEL_TO_FOLDER(level) ==
  IF level = S_pattern THEN <<"p", "a", "t", "t", "e", "r", "n", "s">>
  ELSE IF level = S_principle THEN <<"p", "r", "i", "n", "c", "i", "p", "l", "e", "s">>
  ELSE <<"c", "a", "s", "e", "s">>

\* re.sub(r"[^a-z0-9]+", "-", s): every maximal run of other characters
\* becomes one hyphen.
SubNonAlnum(s) ==
  LET keep == {i \in 1..Len(s) : IsLowerAlnum(s[i]) \/ i = 1 \/ IsLowerAlnum(s[i - 1])}
      pick[i \in 0..Len(s)] ==
        IF i = 0 THEN <<>>
        ELSE IF i \in keep
             THEN pick[i - 1] \o <<IF IsLowerAlnum(s[i]) THEN s[i] ELSE "-">>
             ELSE pick[i - 1]
  IN  pick[Len(s)]

\* str.strip("-")
RECURSIVE SkipHyphens(_, _)
SkipHyphens(s, i) == IF i <= Len(s) /\ s[i] = "-" THEN SkipHyphens(s, i + 1) ELSE i

RECURSIVE SkipHyphensBack(_, _)
SkipHyphensBack(s, i) == IF i >= 1 /\ s[i] = "-" THEN SkipHyphensBack(s, i - 1) ELSE i

StripHyphens(s) ==
  LET lo == SkipHyphens(s, 1)
  IN  IF lo > Len(s) THEN <<>> ELSE SubSeq(s, lo, SkipHyphensBack(s, Len(s)))

slugify(text) ==
  LET slug == StripHyphens(SubNonAlnum(Lower(text)))
  IN  IF slug # <<>> THEN slug ELSE <<"l", "e", "s", "s", "o", "n">>

IsQuoted(value) ==
  Len(value) >= 2 /\ value[1] = value[Len(value)] /\ value[1] \in {"'", "\""}

\* re.fullmatch(r"-?\d+", value)
IsIntLiteral(value) ==
  IF value # <<>> /\ value[1] = "-" THEN AllDigits(Tail(value)) ELSE AllDigits(value)

\* The items of a bracketed list: quoted items are unquoted (and kept even
\* when empty), other items are kept when not empty.
ListItems(inner) ==
  LET raw == SplitChar(inner, ",")
      parts == [i \in 1..Len(raw) |-> Strip(raw[i])]
      out[i \in 0..Len(parts)] ==
        IF i = 0 THEN <<>>
        ELSE IF IsQuoted(parts[i]) THEN out[i - 1] \o <<SubSeq(parts[i], 2, Len(parts[i]) - 1)>>
        ELSE IF parts[i] # <<>> THEN out[i - 1] \o <<parts[i]>>
        ELSE out[i - 1]
  IN  out[Len(parts)]

parse_scalar(raw) ==
  LET value == Strip(raw)
  IN  IF IsQuoted(value) THEN PyS(SubSeq(value, 2, Len(value) - 1))
      ELSE IF StartsWith(value, <<"[">>) /\ EndsWith(value, <<"]">>)
           THEN LET inner == Strip(SubSeq(value, 2, Len(value) - 1))
                IN  IF inner = <<>> THEN PyL(<<>>) ELSE PyL(ListItems(inner))
      ELSE IF IsIntLiteral(value)
           THEN PyI(IF value[1] = "-" THEN 0 - DigitsToNat(Tail(value)) ELSE DigitsToNat(value))
      ELSE IF Lower(value) = <<"t", "r", "u", "e">> THEN PyB(TRUE)
      ELSE IF Lower(value) = <<"f", "a", "l", "s", "e">> THEN PyB(FALSE)
      ELSE PyS(value)

\* A document is the sequence of its lines. parse_frontmatter returns the
\* metadata as the sequence of its (key, value) assignments, in line order,
\* and the body as the lines after the closing marker.
FrontEnd(lines) ==
  LET marks == {i \in 2..Len(lines) : Strip(lines[i]) = <<"-", "-", "-">>}
  IN  IF Len(lines) = 0 \/ Strip(lines[1]) # <<"-", "-", "-">> \/ marks = {} THEN 0
      ELSE CHOOSE i \in marks : \A j \in marks : i <= j

MetaLine(line) ==
  LET k == IndexOf(line, ":", 1)
  IN  [k |-> Strip(SubSeq(line, 1, k - 1)), v |-> parse_scalar(SubSeq(line, k + 1, Len(line)))]

IsMetaLine(line) ==
  LET s == Strip(line)
  IN  s # <<>> /\ s[1] # "#" /\ IndexOf(line, ":", 1) > 0

parse_frontmatter(lines) ==
  LET end_idx == FrontEnd(lines)
      meta[i \in 1..end_idx] ==
        IF i = 1 THEN <<>>
        ELSE IF i < end_idx /\ IsMetaLine(lines[i]) THEN meta[i - 1] \o <<MetaLine(lines[i])>>
        ELSE meta[i - 1]
  IN  IF end_idx = 0 THEN [meta |-> <<>>, body |-> lines]
      ELSE [meta |-> meta[end_idx], body |-> SubSeq(lines, end_idx + 1, Len(lines))]

\* metadata.get(key): the last assignment to the key wins; None when absent.
MetaGet(meta, key) ==
  LET at == {i \in 1..Len(meta) : meta[i].k = key}
  IN  IF at = {} THEN PyNone ELSE meta[CHOOSE i \in at : \A j \in at : i >= j].v

clamp_score(value, fallback) ==
  LET r == ToInt(value)
      ivalue == IF r.ok THEN r.n ELSE fallback
  IN  IF ivalue < 1 THEN 1 ELSE IF ivalue > 5 THEN 5 ELSE ivalue

\* The non-empty stripped parts of a comma-separated string or of a list.
StrippedItems(raw) ==
  LET items == IF raw.t = "str" THEN SplitChar(raw.s, ",") ELSE raw.l
  IN  {Strip(items[i]) : i \in 1..Len(items)} \ {<<>>}

normalize_tags(raw) ==
  IF raw.t \in {"str", "list"} THEN SortedStrs({Lower(x) : x \in StrippedItems(raw)}) ELSE <<>>

normalize_case_ids(raw) ==
  IF raw.t \in {"str", "list"} THEN SortedStrs(StrippedItems(raw)) ELSE <<>>

\* date.fromisoformat(txt).toordinal() for the form YYYY-MM-DD; 0 where
\* Python raises ValueError. (Ordinals are at least 1: date.min is day 1.)
IsLeap(y) == (y % 4 = 0 /\ y % 100 # 0) \/ y % 400 = 0

DaysInMonth(y, m) ==
  IF m = 2 THEN (IF IsLeap(y) THEN 29 ELSE 28)
  ELSE IF m \in {4, 6, 9, 11} THEN 30 ELSE 31

RECURSIVE DaysBeforeMonth(_, _)
DaysBeforeMonth(y, m) == IF m = 1 THEN 0 ELSE DaysBeforeMonth(y, m - 1) + DaysInMonth(y, m - 1)

DateOrdinal(txt) ==
  IF /\ Len(txt) = 10
     /\ txt[5] = "-" /\ txt[8] = "-"
     /\ \A i \in {1, 2, 3, 4, 6, 7, 9, 10} : IsDigit(txt[i])
  THEN LET y == DigitsToNat(SubSeq(txt, 1, 4))
           m == DigitsToNat(SubSeq(txt, 6, 7))
           d == DigitsToNat(SubSeq(txt, 9, 10))
       IN  IF y >= 1 /\ m >= 1 /\ m <= 12 /\ d >= 1 /\ d <= DaysInMonth(y, m)
           THEN 365 * (y - 1) + ((y - 1) \div 4) - ((y - 1) \div 100) + ((y - 1) \div 400)
                + DaysBeforeMonth(y, m) + d
           ELSE 0
  ELSE 0

\* The days on which the tools run: date.today().isoformat() is Calendar[day].
Calendar == <<<<"2", "0", "2", "6", "-", "0", "2", "-", "0", "6">>, <<"2", "0", "2", "6", "-", "0", "3", "-", "2", "0">>>>

valid_date_or_today(raw, todayIso) ==
  IF raw.t = "str" /\ Strip(raw.s) # <<>> /\ DateOrdinal(Strip(raw.s)) > 0
  THEN Strip(raw.s)
  ELSE todayIso

\* A variant of the inference that takes every folder for the one of the
\* cases.
detect_level_case(path) == S_case

\* A path is the folder of the document under the lessons root and the stem
\* of its file name; every document is <lessons root>/<folder>/<stem>.md.
detect_level(path) == FOLDER_TO_LEVEL(Lower(path.folder))

IsLetter(c) == c \in UpperChars \/ c \in LowerChars

\* str.title()
Title(s) ==
  [i \in 1..Len(s) |->
     IF ~IsLetter(s[i]) THEN s[i]
     ELSE IF i = 1 \/ ~IsLetter(s[i - 1]) THEN UpperChar(s[i]) ELSE LowerChar(s[i])]

Replace(s, from, to) == [i \in 1..Len(s) |-> IF s[i] = from THEN to ELSE s[i]]

\* The body is given by its lines: stripping the joined body and splitting it
\* again changes no line that the loop, which strips each line and skips the
\* blank ones, reads differently.
extract_title_summary(body, fallback_id) ==
  LET scan[i \in 0..Len(body)] ==
        IF i = 0 THEN [title |-> <<>>, summary |-> <<>>, done |-> FALSE]
        ELSE LET p == scan[i - 1]
                 s == Strip(body[i])
             IN  IF p.done \/ s = <<>> THEN p
                 ELSE IF StartsWith(s, <<"#", " ">>) THEN [p EXCEPT !.title = Strip(SubSeq(s, 3, Len(s)))]
                 ELSE IF ~StartsWith(s, <<"#">>) THEN [p EXCEPT !.summary = s, !.done = TRUE]
                 ELSE p
      r == scan[Len(body)]
  IN  [title |-> IF r.title # <<>> THEN r.title ELSE Title(Strip(Replace(fallback_id, "-", " "))),
       summary |-> r.summary]

\* "lessons": the default of --lessons-root.
S_lessons == <<"l", "e", "s", "s", "o", "n", "s">>

RelPath(path) == S_lessons \o <<"/">> \o path.folder \o <<"/">> \o path.stem \o <<".", "m", "d">>

K_id == <<"i", "d">>

K_level == <<"l", "e", "v", "e", "l">>

K_status == <<"s", "t", "a", "t", "u", "s">>

K_tags == <<"t", "a", "g", "s">>

K_confidence == <<"c", "o", "n", "f", "i", "d", "e", "n", "c", "e">>

K_transferability == <<"t", "r", "a", "n", "s", "f", "e", "r", "a", "b", "i", "l", "i", "t", "y">>

K_source_case_ids == <<"s", "o", "u", "r", "c", "e", "_", "c", "a", "s", "e", "_", "i", "d", "s">>

K_last_validated_at == <<"l", "a", "s", "t", "_", "v", "a", "l", "i", "d", "a", "t", "e", "d", "_", "a", "t">>

K_title == <<"t", "i", "t", "l", "e">>

K_summary == <<"s", "u", "m", "m", "a", "r", "y">>

\* An entry is a dict: one Python value for each key.
normalize_lesson_entry(path, metadata, body, todayIso) ==
  LET inferred_level == detect_level(path)
      id0 == Strip(ToStr(PyOr(MetaGet(metadata, K_id), PyS(path.stem))))
      lesson_id == IF id0 = <<>> THEN path.stem ELSE id0
      level0 == Lower(Strip(ToStr(PyOr(MetaGet(metadata, K_level), PyS(inferred_level)))))
      level == IF level0 \in Range(LEVELS) THEN level0 ELSE inferred_level
      status0 == Lower(Strip(ToStr(PyOr(MetaGet(metadata, K_status), PyS(S_candidate)))))
      status == IF status0 \in Range(STATUS_VALUES) THEN status0 ELSE S_candidate
      ts == extract_title_summary(body, lesson_id)
  IN  [id |-> PyS(lesson_id),
       level |-> PyS(level),
       status |-> PyS(status),
       tags |-> PyL(normalize_tags(MetaGet(metadata, K_tags))),
       confidence |-> PyI(clamp_score(MetaGet(metadata, K_confidence), 3)),
       transferability |-> PyI(clamp_score(MetaGet(metadata, K_transferability), 3)),
       source_case_ids |-> PyL(normalize_case_ids(MetaGet(metadata, K_source_case_ids))),
       last_validated_at |-> PyS(valid_date_or_today(MetaGet(metadata, K_last_validated_at), todayIso)),
       title |-> PyS(Strip(ToStr(PyOr(MetaGet(metadata, K_title), PyS(ts.title))))),
       summary |-> PyS(Strip(ToStr(PyOr(MetaGet(metadata, K_summary), PyS(ts.summary))))),
       path |-> PyS(RelPath(path))]

\* list.sort(key=...): a stable insertion sort; Before is the strict order of
\* the keys.
Insert(sorted, x, Before(_, _)) ==
  LET k == Cardinality({i \in 1..Len(sorted) : ~Before(x, sorted[i])})
  IN  SubSeq(sorted, 1, k) \o <<x>> \o SubSeq(sorted, k + 1, Len(sorted))

StableSort(seq, Before(_, _)) ==
  LET ins[i \in 0..Len(seq)] == IF i = 0 THEN <<>> ELSE Insert(ins[i - 1], seq[i], Before)
  IN  ins[Len(seq)]

\* sorted(base.rglob("*.md")): the paths of one folder, by file name.
RECURSIVE SortedPaths(_)
SortedPaths(P) ==
  IF P = {} THEN <<>>
  ELSE LET m == CHOOSE p \in P : \A q \in P : p = q \/ StrLess(p.stem \o <<".", "m", "d">>, q.stem \o <<".", "m", "d">>)
       IN  <<m>> \o SortedPaths(P \ {m})

EntryBefore(a, b) ==
  \/ LEVEL_ORDER(a.level.s) < LEVEL_ORDER(b.level.s)
  \/ LEVEL_ORDER(a.level.s) = LEVEL_ORDER(b.level.s) /\ StrLess(a.id.s, b.id.s)

\* corpus is the set of documents under the lessons root: a function from
\* paths to lines.
collect_lessons(corpus, todayIso) ==
  LET paths == SortedPaths({p \in DOMAIN corpus : p.folder = Folders[1]})
               \o SortedPaths({p \in DOMAIN corpus : p.folder = Folders[2]})
               \o SortedPaths({p \in DOMAIN corpus : p.folder = Folders[3]})
      entries == [i \in 1..Len(paths) |->
                    LET fm == parse_frontmatter(corpus[paths[i]])
                    IN  normalize_lesson_entry(paths[i], fm.meta, fm.body, todayIso)]
  IN  StableSort(entries, EntryBefore)

CountWhere(entries, Test(_)) == Cardinality({i \in 1..Len(entries) : Test(entries[i])})

\* A variant of the index that lists no entry.
build_index_unlisted(entries, now) ==
  [kind |-> "object",
   schemaVersion |-> <<"1", ".", "0", ".", "0">>,
   generatedAt |-> now,
   stats |-> [total |-> 0,
              byLevel |-> [l \in Range(LEVELS) |-> 0],
              byStatus |-> [s \in Range(STATUS_VALUES) |-> 0]],
   lessons |-> PyL(<<>>)]

\* The index as json.dumps writes it and json.loads reads it back; generatedAt
\* is the clock's reading, to the day.
build_index(entries, now) ==
  [kind |-> "object",
   schemaVersion |-> <<"1", ".", "0", ".", "0">>,
   generatedAt |-> now,
   stats |-> [total |-> Len(entries),
              byLevel |-> [l \in Range(LEVELS) |-> LET Is(e) == e.level.s = l IN CountWhere(entries, Is)],
              byStatus |-> [s \in Range(STATUS_VALUES) |-> LET Is(e) == e.status.s = s IN CountWhere(entries, Is)]],
   lessons |-> PyL(entries)]

FrontmatterKeys ==
  <<K_id, K_level, K_status, K_tags, K_confidence, K_transferability,
    K_source_case_ids, K_last_validated_at, K_title, K_summary>>

\* metadata is the sequence of (key, value) pairs of the dict.
metadata_to_frontmatter(metadata) ==
  LET Has(k) == \E i \in 1..Len(metadata) : metadata[i].k = k
      keys == SelectSeq(FrontmatterKeys, Has)
  IN  <<<<"-", "-", "-">>>>
      \o [i \in 1..Len(keys) |->
            LET v == MetaGet(metadata, keys[i])
            IN  keys[i] \o <<":", " ">>
                \o (IF v.t = "list" THEN <<"[">> \o Join(v.l, <<",", " ">>) \o <<"]">> ELSE ToStr(v))]
      \o <<<<"-", "-", "-">>>>

----------------------------------------------------------------------------
(* scripts/tools/promote_lesson.py                                         *)

\* An absent dict key, as dict.get sees it.
PyAbsent == [t |-> "absent", s |-> <<>>, n |-> 0, l |-> <<>>]

\* d.get(key, default) on the value found under the key.
GetOr(v, default) == IF v.t = "absent" THEN default ELSE v

\* by_id.get(args.source_id): the last entry of the scan with that id; the
\* result is [found |-> FALSE] where the code sees None.
find_source(entries, source_id) ==
  LET at == {i \in 1..Len(entries) : entries[i].id.s = source_id}
  IN  IF at = {} THEN [found |-> FALSE]
      ELSE [found |-> TRUE, entry |-> entries[CHOOSE i \in at : \A j \in at : i >= j]]

\* A variant of the transition checks that lets a case or a pattern go to any
\* target level.
transition_ok_any(source_level, target_level) == source_level # S_principle

\* The three transition checks: TRUE when none of them exits.
transition_ok(source_level, target_level) ==
  /\ ~(source_level = S_case /\ target_level # S_pattern)
  /\ ~(source_level = S_pattern /\ target_level # S_principle)
  /\ source_level # S_principle

\* A variant of the provenance that holds the source's id whatever its level.
provenance_of_with_source(source, extra_ids) ==
  Range(extra_ids) \cup Range(GetOr(source.source_case_ids, PyL(<<>>)).l) \cup {source.id.s}

\* The provenance set: the ids given on the call, the source's own, and the
\* source's id when the source is a case.
provenance_of(source, extra_ids) ==
  Range(extra_ids) \cup Range(GetOr(source.source_case_ids, PyL(<<>>)).l)
  \cup (IF source.level.s = S_case THEN {source.id.s} ELSE {})

\* The two threshold checks: TRUE when neither exits.
provenance_ok(target_level, provenance) ==
  /\ ~(target_level = S_pattern /\ Cardinality(provenance) < 2)
  /\ ~(target_level = S_principle /\ Cardinality(provenance) < 3)

promote_title(title_arg, target_level, source) ==
  IF Strip(title_arg) # <<>> THEN Strip(title_arg)
  ELSE Title(target_level) \o <<" ", "f", "r", "o", "m", " ">> \o source.id.s

promote_new_id(new_id_arg, target_level, title) ==
  IF Strip(new_id_arg) # <<>> THEN Strip(new_id_arg)
  ELSE target_level \o <<"-">> \o slugify(title)

\* A variant of the target path that stays in the folder of the cases.
promote_target_path_in_cases(target_level, new_id) ==
  [folder |-> Folders[1], stem |-> new_id]

\* lessons_root / LEVEL_TO_FOLDER[args.target_level] / f"{new_id}.md"
promote_target_path(target_level, new_id) ==
  [folder |-> LEVEL_TO_FOLDER(target_level), stem |-> new_id]

\* A variant of the conflict check that never finds the target.
target_conflict_never(corpus, target_path, force) == FALSE

\* target_path.exists() and not args.force
target_conflict(corpus, target_path, force) ==
  target_path \in DOMAIN corpus /\ ~force

Max(a, b) == IF a >= b THEN a ELSE b

\* int(source.get(key, 3)) of a scanned entry, whose scores are ints.
SourceScore(v) == ToInt(GetOr(v, PyI(3))).n

\* "validated" if args.target_level == "pattern" else "canonical"
promoted_status(target_level) == IF target_level = S_pattern THEN S_validated ELSE S_canonical

\* A variant of the promoted score that copies the source's.
promoted_score_copy(v) == SourceScore(v)

\* max(int(source.get(key, 3)), 3)
promoted_score(v) == Max(SourceScore(v), 3)

promote_metadata(source, target_level, provenance, title, new_id, todayIso) ==
  <<[k |-> K_id, v |-> PyS(new_id)],
    [k |-> K_level, v |-> PyS(target_level)],
    [k |-> K_status, v |-> PyS(promoted_status(target_level))],
    [k |-> K_tags, v |-> PyL(SortedStrs(Range(GetOr(source.tags, PyL(<<>>)).l) \cup {<<"p", "r", "o", "m", "o", "t", "e", "d">>}))],
    [k |-> K_confidence, v |-> PyI(promoted_score(source.confidence))],
    [k |-> K_transferability, v |-> PyI(promoted_score(source.transferability))],
    [k |-> K_source_case_ids, v |-> PyL(SortedStrs(provenance \ {<<>>}))],
    [k |-> K_last_validated_at, v |-> PyS(todayIso)],
    [k |-> K_title, v |-> PyS(title)],
    [k |-> K_summary, v |-> PyS(<<"P", "r", "o", "m", "o", "t", "e", "d", " ", "f", "r", "o", "m", " ">> \o source.id.s \o <<" ", "w", "i", "t", "h", " ", "s", "t", "r", "u", "c", "t", "u", "r", "e", "d", " ", "p", "r", "o", "v", "e", "n", "a", "n", "c", "e", ".">>)]>>

\* The templated body, up to its first paragraph: no reader of a document
\* reads past the first line that is neither blank nor a heading.
promote_content(title, source) ==
  <<<<"#", " ">> \o title,
    <<>>,
    <<"#", "#", " ", "C", "o", "n", "t", "e", "x", "t">>,
    <<>>,
    <<"P", "r", "o", "m", "o", "t", "e", "d", " ", "f", "r", "o", "m", " ", "<backtick>">> \o source.id.s \o <<"<backtick>", ".">>>>

\* The exit of a run: the first check that fails, "ok" when none does.
promote_outcome(found, source_level, target_level, provenance, corpus, target_path, force) ==
  IF ~found THEN "NotFound"
  ELSE IF ~transition_ok(source_level, target_level) THEN "InvalidTransition"
  ELSE IF ~provenance_ok(target_level, provenance) THEN "InsufficientProvenance"
  ELSE IF target_conflict(corpus, target_path, force) THEN "Conflict"
  ELSE "ok"

\* A variant of the write that runs before the conflict check.
documents_after_early(outcome, corpus, target_path, content) ==
  IF outcome \in {"ok", "Conflict"}
  THEN [p \in DOMAIN corpus \cup {target_path} |-> IF p = target_path THEN content ELSE corpus[p]]
  ELSE corpus

\* target_path.write_text(content): reached only when no check has exited.
documents_after(outcome, corpus, target_path, content) ==
  IF outcome = "ok"
  THEN [p \in DOMAIN corpus \cup {target_path} |-> IF p = target_path THEN content ELSE corpus[p]]
  ELSE corpus

\* A variant of the rebuild that leaves alone an index file that holds an
\* object.
index_after_kept(outcome, corpus, after, index_file, todayIso, now) ==
  IF outcome = "ok" /\ index_file.kind # "object"
  THEN build_index(collect_lessons(after, todayIso), now)
  ELSE index_file

\* A variant of the rebuild that scans the corpus as it was before the write.
index_after_stale(outcome, corpus, after, index_file, todayIso, now) ==
  IF outcome = "ok" THEN build_index(collect_lessons(corpus, todayIso), now) ELSE index_file

\* write_index(index_path, build_index(collect_lessons(lessons_root))): the
\* scan after the write; reached only when no check has exited.
index_after(outcome, corpus, after, index_file, todayIso, now) ==
  IF outcome = "ok" THEN build_index(collect_lessons(after, todayIso), now) ELSE index_file

\* What a run leaves: its exit, the corpus and the index file, and what it
\* computed as far as it got.
promote_finish(outcome, corpus, after, index_file, source, target_path, metadata, todayIso, now) ==
  IF outcome = "ok"
  THEN [outcome |-> outcome,
        corpus |-> after,
        index_file |-> index_after(outcome, corpus, after, index_file, todayIso, now),
        source |-> source,
        target_path |-> target_path,
        metadata |-> metadata]
  ELSE IF outcome = "Conflict"
  THEN [outcome |-> outcome,
        corpus |-> after,
        index_file |-> index_after(outcome, corpus, after, index_file, todayIso, now),
        target_path |-> target_path]
  ELSE [outcome |-> outcome,
        corpus |-> after,
        index_file |-> index_after(outcome, corpus, after, index_file, todayIso, now)]

\* The document of the promoted entry, as lines.
promote_document(metadata, title, source) ==
  metadata_to_frontmatter(metadata) \o <<<<>>>> \o promote_content(title, source)

\* The run from the checks on, given what it has computed.
promote_checked(outcome, source, corpus, index_file, target_path, metadata, title, todayIso, now) ==
  promote_finish(outcome, corpus,
                 documents_after(outcome, corpus, target_path, promote_document(metadata, title, source)),
                 index_file, source, target_path, metadata, todayIso, now)

\* The run from the target path on.
promote_at(source, corpus, index_file, args, provenance, title, target_path, metadata, todayIso, now) ==
  promote_checked(
    promote_outcome(TRUE, source.level.s, args.target_level, provenance, corpus, target_path, args.force),
    source, corpus, index_file, target_path, metadata, title, todayIso, now)

\* The run from the source found on: what it computes, in the order of the
\* code.
promote_from(source, corpus, index_file, args, provenance, title, new_id, todayIso, now) ==
  promote_at(source, corpus, index_file, args, provenance, title,
             promote_target_path(args.target_level, new_id),
             promote_metadata(source, args.target_level, provenance, title, new_id, todayIso),
             todayIso, now)

\* One run of the tool. args is [source_id, target_level, new_id, title,
\* source_case_ids, force]; --target-level is one of pattern and principle
\* (argparse choices). entries is the scan the run starts with,
\* collect_lessons(corpus, todayIso). The result gives the exit (outcome),
\* what the run computed, and the corpus and index file it leaves.
promote_main(entries, corpus, index_file, args, todayIso, now) ==
  LET found == find_source(entries, args.source_id)
      title == promote_title(args.title, args.target_level, found.entry)
  IN  IF ~found.found
      THEN promote_finish(promote_outcome(FALSE, <<>>, args.target_level, {}, corpus, PyNone, args.force),
                          corpus, corpus, index_file, PyNone, PyNone, <<>>, todayIso, now)
      ELSE promote_from(found.entry, corpus, index_file, args,
                        provenance_of(found.entry, args.source_case_ids),
                        title,
                        promote_new_id(args.new_id, args.target_level, title),
                        todayIso, now)

----------------------------------------------------------------------------
(* scripts/tools/agent_lessons_preflight.py                                *)

\* The separators of tokenize: [\s\.,;:!\?\-_/\\]
IsSeparator(c) == IsSpace(c) \/ c \in {".", ",", ";", ":", "!", "?", "-", "_", "/", "\\"}

\* re.split on runs of separators: the maximal runs of other characters.
Words(s) ==
  LET starts == {i \in 1..Len(s) : ~IsSeparator(s[i]) /\ (i = 1 \/ IsSeparator(s[i - 1]))}
      EndOf(i) == CHOOSE j \in i..Len(s) :
                    /\ \A k \in i..j : ~IsSeparator(s[k])
                    /\ (j = Len(s) \/ IsSeparator(s[j + 1]))
  IN  {SubSeq(s, i, EndOf(i)) : i \in starts}

tokenize(text) == SortedStrs({t \in Words(Lower(text)) : Len(t) >= 3})

\* The legacy file is [exists |-> FALSE] or [exists |-> TRUE, lines |-> ...].
read_headings(file) ==
  IF ~file.exists THEN <<>>
  ELSE LET Is(line) == StartsWith(line, <<"#", "#", " ">>)
           hs == SelectSeq(file.lines, Is)
       IN  [i \in 1..Len(hs) |-> Strip(SubSeq(hs[i], 4, Len(hs[i])))]

\* parse_iso_date(raw): the ordinal of the date, 0 for None.
parse_iso_date(raw) == DateOrdinal(Strip(raw))

recency_score(last_validated_at, todayIso) ==
  LET d == parse_iso_date(last_validated_at)
      age_days == DateOrdinal(todayIso) - d
  IN  IF d = 0 THEN 0
      ELSE IF age_days <= 30 THEN 3
      ELSE IF age_days <= 90 THEN 2
      ELSE IF age_days <= 180 THEN 1
      ELSE 0

level_weight(level) ==
  IF level = PyS(S_principle) THEN 30
  ELSE IF level = PyS(S_pattern) THEN 20
  ELSE IF level = PyS(S_case) THEN 10
  ELSE 0

status_bonus(status) ==
  IF status = PyS(S_canonical) THEN 4
  ELSE IF status = PyS(S_validated) THEN 2
  ELSE IF status = PyS(S_retired) THEN 0 - 999
  ELSE 0

\* [str(t).lower() for t in tags]: a list gives its items, a string its
\* characters; ok is FALSE where the value cannot be iterated (TypeError).
TagList(tags) ==
  IF tags.t = "list" THEN [ok |-> TRUE, l |-> [i \in 1..Len(tags.l) |-> Lower(tags.l[i])]]
  ELSE IF tags.t = "str" THEN [ok |-> TRUE, l |-> [i \in 1..Len(tags.s) |-> <<LowerChar(tags.s[i])>>]]
  ELSE [ok |-> FALSE, l |-> <<>>]

\* score_entry: ok is FALSE where the code raises (int() of a value that is
\* no number, tags that cannot be iterated).
score_entry(entry, tokens, todayIso) ==
  LET level == GetOr(entry.level, PyS(S_case))
      status == GetOr(entry.status, PyS(S_candidate))
      confidence == ToInt(GetOr(entry.confidence, PyI(3)))
      transferability == ToInt(GetOr(entry.transferability, PyI(3)))
      tags == TagList(GetOr(entry.tags, PyL(<<>>)))
      hay == Lower(Join(<<ToStr(GetOr(entry.id, PyS(<<>>))),
                          ToStr(GetOr(entry.title, PyS(<<>>))),
                          ToStr(GetOr(entry.summary, PyS(<<>>))),
                          Join(tags.l, <<" ">>)>>, <<" ">>))
      token_hits == Cardinality({i \in 1..Len(tokens) : IsSubstring(tokens[i], hay)})
      tag_hits == Cardinality({i \in 1..Len(tokens) : tokens[i] \in Range(tags.l)})
      rscore == recency_score(ToStr(GetOr(entry.last_validated_at, PyS(<<>>))), todayIso)
  IN  IF ~confidence.ok \/ ~transferability.ok \/ ~tags.ok
      THEN [ok |-> FALSE]
      ELSE [ok |-> TRUE,
            score |-> level_weight(level) + (token_hits * 3) + (tag_hits * 2)
                      + confidence.n + transferability.n + status_bonus(status) + rscore,
            detail |-> [tokenHits |-> token_hits, tagHits |-> tag_hits, recencyScore |-> rscore,
                        levelWeight |-> level_weight(level), statusBonus |-> status_bonus(status)]]

\* entry.get(key): None for an absent key.
GetNone(v) == IF v.t = "absent" THEN PyNone ELSE v

to_selection(entry, score, detail, reason) ==
  [id |-> GetNone(entry.id),
   level |-> GetNone(entry.level),
   status |-> GetNone(entry.status),
   title |-> GetNone(entry.title),
   path |-> GetNone(entry.path),
   score |-> score,
   reason |-> reason,
   tokenHits |-> detail.tokenHits,
   tagHits |-> detail.tagHits,
   recencyScore |-> detail.recencyScore,
   levelWeight |-> detail.levelWeight,
   statusBonus |-> detail.statusBonus]

\* A variant of load_entries that takes any JSON object for an index and
\* reads no entry where "lessons" is no list.
load_entries_any_object(corpus, index_file, todayIso) ==
  IF index_file.kind = "object"
  THEN [entries |-> index_file.lessons.l, source |-> "index"]
  ELSE [entries |-> collect_lessons(corpus, todayIso), source |-> "scan"]

\* load_entries: the lessons of the index file when it exists, parses to an
\* object and holds a list (or nothing) under "lessons"; a scan otherwise.
load_entries(corpus, index_file, todayIso) ==
  IF index_file.kind = "object" /\ index_file.lessons.t \in {"list", "absent"}
  THEN [entries |-> index_file.lessons.l, source |-> "index"]
  ELSE [entries |-> collect_lessons(corpus, todayIso), source |-> "scan"]

\* The sort key (x, -LEVEL_ORDER.get(level, 99), id), compared for
\* reverse=True: a comes before b when its key is greater.
EntryLevelOrder(entry) == LEVEL_ORDER(GetOr(entry.level, PyS(S_case)).s)

EntryIdKey(entry) == GetOr(entry.id, PyS(<<>>)).s

RankedBefore(a, b) ==
  \/ a.score > b.score
  \/ /\ a.score = b.score
     /\ \/ EntryLevelOrder(a.entry) < EntryLevelOrder(b.entry)
        \/ /\ EntryLevelOrder(a.entry) = EntryLevelOrder(b.entry)
           /\ StrLess(EntryIdKey(b.entry), EntryIdKey(a.entry))

\* The candidates of the ranked pass, sorted.
ranked_candidates(entries, tokens, todayIso) ==
  LET scored == [i \in 1..Len(entries) |->
                   LET r == score_entry(entries[i], tokens, todayIso)
                   IN  [score |-> r.score, entry |-> entries[i], detail |-> r.detail]]
      Keep(c) == ~(c.score <= 0) /\ c.entry.status # PyS(S_retired)
  IN  StableSort(SelectSeq(scored, Keep), RankedBefore)

QuotaLevels == {S_principle, S_pattern, S_case}

\* The ranked pass: walks the candidates, admitting under topN, the quota of
\* the level and the ids seen. The state of the walk is the selection, the
\* used counts and the ids seen.
ranked_pass(candidates, top, quotas) ==
  LET walk[i \in 0..Len(candidates)] ==
        IF i = 0 THEN [selected |-> <<>>, used |-> [l \in QuotaLevels |-> 0], seen_ids |-> {}]
        ELSE LET p == walk[i - 1]
                 c == candidates[i]
                 level == GetOr(c.entry.level, PyS(S_case)).s
                 lesson_id == Strip(ToStr(GetOr(c.entry.id, PyS(<<>>))))
             IN  IF Len(p.selected) >= top THEN p
                 ELSE IF level \in QuotaLevels /\ p.used[level] >= quotas[level] THEN p
                 ELSE IF lesson_id = <<>> \/ lesson_id \in p.seen_ids THEN p
                 ELSE [selected |-> Append(p.selected, to_selection(c.entry, c.score, c.detail, "ranked")),
                       used |-> IF level \in QuotaLevels THEN [p.used EXCEPT ![level] = @ + 1] ELSE p.used,
                       seen_ids |-> p.seen_ids \cup {lesson_id}]
  IN  walk[Len(candidates)]

\* The dated key of the fallback pass: (d or date.min, -LEVEL_ORDER, id).
DateKey(entry) ==
  LET d == parse_iso_date(ToStr(GetOr(entry.last_validated_at, PyS(<<>>))))
  IN  IF d = 0 THEN 1 ELSE d

ValidatedBefore(a, b) ==
  \/ DateKey(a) > DateKey(b)
  \/ /\ DateKey(a) = DateKey(b)
     /\ \/ EntryLevelOrder(a) < EntryLevelOrder(b)
        \/ /\ EntryLevelOrder(a) = EntryLevelOrder(b)
           /\ StrLess(EntryIdKey(b), EntryIdKey(a))

\* A variant of the fallback filter that keeps every status but candidate.
IsValidatedLoose(entry) == GetNone(entry.status) # PyS(S_candidate)

IsValidated(entry) ==
  /\ GetNone(entry.status) \in {PyS(S_validated), PyS(S_canonical)}
  /\ GetNone(entry.status) # PyS(S_retired)

\* The validated list of the fallback pass, sorted.
validated_entries(entries) == StableSort(SelectSeq(entries, IsValidated), ValidatedBefore)

\* The fallback_latest_validated pass over the validated list, from the state
\* the ranked pass left.
fallback_validated(validated, start, top, todayIso) ==
  LET walk[i \in 0..Len(validated)] ==
        IF i = 0 THEN start
        ELSE LET p == walk[i - 1]
                 entry == validated[i]
                 lesson_id == Strip(ToStr(GetOr(entry.id, PyS(<<>>))))
             IN  IF Len(p.selected) >= top THEN p
                 ELSE IF lesson_id = <<>> \/ lesson_id \in p.seen_ids THEN p
                 ELSE [p EXCEPT
                         !.selected = Append(@, to_selection(entry, 0,
                            [tokenHits |-> 0, tagHits |-> 0,
                             recencyScore |-> recency_score(ToStr(GetOr(entry.last_validated_at, PyS(<<>>))), todayIso),
                             levelWeight |-> 0, statusBonus |-> 0],
                            "fallback_latest_validated")),
                         !.seen_ids = @ \cup {lesson_id}]
  IN  walk[Len(validated)]

\* headings[:top], as Python slices: a negative top counts from the end.
SliceTo(seq, top) ==
  IF top >= 0 THEN SubSeq(seq, 1, IF top < Len(seq) THEN top ELSE Len(seq))
  ELSE SubSeq(seq, 1, Len(seq) + top)

S_legacy == <<"l", "e", "g", "a", "c", "y">>

\* "LESSONS.md": the default of --fallback-headings-path.
S_headings_path == <<"L", "E", "S", "S", "O", "N", "S", ".", "m", "d">>

legacy_selection(heading) ==
  [id |-> PyS(<<"l", "e", "g", "a", "c", "y", "-">> \o StripHyphens(SubNonAlnum(Lower(heading)))),
   level |-> PyS(S_legacy),
   status |-> PyS(<<"n", "/", "a">>),
   title |-> PyS(heading),
   path |-> PyS(S_headings_path),
   score |-> 0,
   reason |-> "fallback_legacy_headings",
   tokenHits |-> 0,
   tagHits |-> 0,
   recencyScore |-> 0,
   levelWeight |-> 0,
   statusBonus |-> 0]

\* What a run computes from the entries loaded and the tokens of the task:
\* whether scoring an entry raises, and the two sorted lists the passes walk.
prepare_entries(loaded, tokens, task, todayIso) ==
  LET raises == \E i \in 1..Len(loaded.entries) : ~score_entry(loaded.entries[i], tokens, todayIso).ok
  IN  [task |-> task,
       tokens |-> tokens,
       source |-> loaded.source,
       raises |-> raises,
       candidates |-> IF raises THEN <<>> ELSE ranked_candidates(loaded.entries, tokens, todayIso),
       validated |-> validated_entries(loaded.entries)]

\* What a run computes from the task text, the corpus and the index file
\* alone.
preflight_prepare(corpus, index_file, task, todayIso) ==
  prepare_entries(load_entries(corpus, index_file, todayIso), tokenize(task), task, todayIso)

\* The --*-max arguments as the quotas dict.
quotas_of(args) ==
  [l \in QuotaLevels |->
     IF l = S_principle THEN args.principles_max
     ELSE IF l = S_pattern THEN args.patterns_max
     ELSE args.cases_max]

\* if len(selected) < args.top: the fallback pass runs, and fallback_used is
\* set.
after_ranked(ranked, validated, top, todayIso) ==
  IF Len(ranked.selected) < top
  THEN [selected |-> fallback_validated(validated, ranked, top, todayIso).selected,
        fallback_used |-> TRUE]
  ELSE [selected |-> ranked.selected, fallback_used |-> FALSE]

\* A variant of the legacy tier that adds the headings to whatever the two
\* passes chose.
legacy_tier_always(after, headings) ==
  [selected |-> after.selected \o [i \in 1..Len(headings) |-> legacy_selection(headings[i])],
   fallback_used |-> TRUE]

\* if not selected: the legacy headings, and fallback_used is set.
legacy_tier(after, headings) ==
  IF Len(after.selected) = 0
  THEN [selected |-> [i \in 1..Len(headings) |-> legacy_selection(headings[i])],
        fallback_used |-> TRUE]
  ELSE after

preflight_artifact(prepared, chosen, args) ==
  [task |-> prepared.task,
   tokens |-> prepared.tokens,
   source |-> prepared.source,
   matchCount |-> Len(chosen.selected),
   matches |-> chosen.selected,
   fallbackUsed |-> chosen.fallback_used,
   selection |-> [top |-> args.top,
                  principlesMax |-> args.principles_max,
                  patternsMax |-> args.patterns_max,
                  casesMax |-> args.cases_max]]

\* One run of preflight, given what preflight_prepare computed for its task.
\* args is [top, principles_max, patterns_max, cases_max]. The result is the
\* exit code and, when the run gets that far, the artifact it writes.
preflight_main(prepared, legacy, args, todayIso) ==
  IF prepared.raises THEN [exit |-> 1, written |-> FALSE]
  ELSE [exit |-> 0,
        written |-> TRUE,
        artifact |-> preflight_artifact(
                       prepared,
                       legacy_tier(after_ranked(ranked_pass(prepared.candidates, args.top, quotas_of(args)),
                                                prepared.validated, args.top, todayIso),
                                   SliceTo(read_headings(legacy), args.top)),
                       args)]

----------------------------------------------------------------------------
(* scripts/tools/update_lessons_index.py                                   *)

\* One run of the index rebuild: the index file it leaves.
update_index_main(corpus, todayIso, now) == build_index(collect_lessons(corpus, todayIso), now)

----------------------------------------------------------------------------
(* The state machine: a repository on which the tools are run one after    *)
(* the other.                                                              *)

VARIABLES
  docs,         \* the documents under the lessons root: path -> lines
  index_file,   \* lessons/index.json
  legacy_file,  \* LESSONS.md, the legacy headings file
  day,          \* the clock: today is Calendar[day]
  last,         \* the command that has just run, with its exit and output
  runs          \* the promotion runs under way at once, each with its position

vars == <<docs, index_file, legacy_file, day, last, runs>>

Today == Calendar[day]

\* The most documents a corpus of the model holds.
MaxDocs == 4

\* The largest --top of the model; the smallest is -1.
MaxTop == 2

\* The largest quota of the model; the smallest is 0.
MaxQuota == 1

Idle == [op |-> "idle"]

\* No promotion runs under way at once: the tools run one after the other.
NoRuns == <<>>

S_c1 == <<"c", "1">>

S_c2 == <<"c", "2">>

S_c3 == <<"c", "3">>

\* A case document as an author writes it.
CaseDoc(id, status, tags, confidence, transferability, title) ==
  <<<<"-", "-", "-">>,
    <<"i", "d", ":", " ">> \o id,
    <<"l", "e", "v", "e", "l", ":", " ", "c", "a", "s", "e">>,
    <<"s", "t", "a", "t", "u", "s", ":", " ">> \o status,
    <<"t", "a", "g", "s", ":", " ", "[">> \o tags \o <<"]">>,
    <<"c", "o", "n", "f", "i", "d", "e", "n", "c", "e", ":", " ">> \o confidence,
    <<"t", "r", "a", "n", "s", "f", "e", "r", "a", "b", "i", "l", "i", "t", "y", ":", " ">> \o transferability,
    <<"s", "o", "u", "r", "c", "e", "_", "c", "a", "s", "e", "_", "i", "d", "s", ":", " ", "[", "]">>,
    <<"l", "a", "s", "t", "_", "v", "a", "l", "i", "d", "a", "t", "e", "d", "_", "a", "t", ":", " ", "2", "0", "2", "6", "-", "0", "2", "-", "0", "6">>,
    <<"t", "i", "t", "l", "e", ":", " ">> \o title,
    <<"s", "u", "m", "m", "a", "r", "y", ":", " ">> \o title \o <<" ", "s", "u", "m", "m", "a", "r", "y", ".">>,
    <<"-", "-", "-">>,
    <<>>,
    <<"#", " ">> \o title,
    <<>>,
    <<"#", "#", " ", "S", "y", "m", "p", "t", "o", "m">>,
    <<>>,
    <<"E", "x", "a", "m", "p", "l", "e", " ", "s", "y", "m", "p", "t", "o", "m", ".">>>>

CasePath(id) == [folder |-> Folders[1], stem |-> id]

EmptyCorpus == <<>>

\* Two cases: c1 validated, c2 with the given status and scores out of range
\* on both sides.
TwoCases(status2) ==
  (CasePath(S_c1) :> CaseDoc(S_c1, S_validated, <<"s", "s", "h", ",", " ", "a", "c", "l">>, <<"4">>, <<"3">>, <<"K", "e", "y", " ", "A", "C", "L">>))
  @@ (CasePath(S_c2) :> CaseDoc(S_c2, status2, <<"s", "s", "h", ",", " ", "a", "l", "i", "a", "s">>, <<"1">>, <<"9">>, <<"H", "o", "s", "t", " ", "a", "l", "i", "a", "s">>))

IndexAbsent == [kind |-> "absent"]

NoLegacy == [exists |-> FALSE]

LegacyHeadings ==
  [exists |-> TRUE,
   lines |-> <<<<"#", " ", "L", "e", "s", "s", "o", "n", "s">>, <<>>, <<"#", "#", " ", "C", "h", "e", "c", "k", " ", "S", "S", "H", " ", "k", "e", "y", "s">>, <<"#", "#", " ", "P", "i", "n", " ", "h", "o", "s", "t", "s">>, <<"#", "#", " ", "R", "o", "t", "a", "t", "e">>>>]

Init ==
  /\ docs \in {EmptyCorpus, TwoCases(S_retired)}
  /\ index_file = IndexAbsent
  /\ legacy_file = NoLegacy
  /\ day = 1
  /\ last = Idle
  /\ runs = NoRuns

\* What a promotion run leaves for the next reader: its exit and, past the
\* validations, what it computed.
PromoteResult(r, args, corpus) ==
  IF r.outcome = "ok"
  THEN [op |-> "promote", outcome |-> "ok", target_level |-> args.target_level,
        force |-> args.force, extra_ids |-> args.source_case_ids,
        source |-> r.source, target_path |-> r.target_path,
        existed |-> r.target_path \in DOMAIN corpus, metadata |-> r.metadata]
  ELSE IF r.outcome = "Conflict"
  THEN [op |-> "promote", outcome |-> "Conflict", target_level |-> args.target_level,
        force |-> args.force, target_path |-> r.target_path]
  ELSE [op |-> "promote", outcome |-> r.outcome, target_level |-> args.target_level,
        force |-> args.force]

\* The files a promotion run leaves, and its result.
PromoteEffect(r, args) ==
  /\ docs' = r.corpus
  /\ index_file' = r.index_file
  /\ last' = PromoteResult(r, args, docs)

\* promote_lesson.py, run with a source id that is one of the corpus or one
\* that is not, and the other arguments drawn from Others.
PromoteWith(Others) ==
  /\ last = Idle
  /\ Cardinality(DOMAIN docs) < MaxDocs
  /\ LET entries == collect_lessons(docs, Today)
     IN  \E source_id \in {entries[i].id.s : i \in 1..Len(entries)} \cup {<<"z", "z">>}, o \in Others :
           LET args == [source_id |-> source_id, target_level |-> o.target_level,
                        new_id |-> o.new_id, title |-> o.title,
                        source_case_ids |-> o.source_case_ids, force |-> o.force]
           IN  PromoteEffect(promote_main(entries, docs, index_file, args, Today, day), args)
  /\ UNCHANGED <<legacy_file, day, runs>>

\* The --source-case-id lists of the model: none, an empty and a blank value,
\* a repeated id, two ids.
ExtraIdArgs ==
  {<<>>, <<<<>>>>, <<<<" ">>>>, <<S_c2, S_c2>>, <<S_c2, S_c3>>}

\* The --new-id, --title and --force of the model: none of them, --force
\* alone, a title alone, an id that a case has with and without --force.
NamedArgs ==
  {[new_id |-> <<>>, title |-> <<>>, force |-> FALSE],
   [new_id |-> <<>>, title |-> <<>>, force |-> TRUE],
   [new_id |-> <<>>, title |-> <<"K", "e", "y", " ", "A", "C", "L", "!">>, force |-> FALSE],
   [new_id |-> S_c1, title |-> <<>>, force |-> FALSE],
   [new_id |-> S_c1, title |-> <<>>, force |-> TRUE]}

\* Every list of ids with none of the other arguments, each of the other
\* arguments with two ids.
PromoteArgs ==
  {a \in [target_level : {S_pattern, S_principle},
          new_id : {n.new_id : n \in NamedArgs},
          title : {n.title : n \in NamedArgs},
          source_case_ids : ExtraIdArgs,
          force : BOOLEAN] :
     /\ [new_id |-> a.new_id, title |-> a.title, force |-> a.force] \in NamedArgs
     /\ \/ a.source_case_ids = <<S_c2, S_c3>>
        \/ (a.new_id = <<>> /\ a.title = <<>> /\ ~a.force)}

Promote == PromoteWith(PromoteArgs)

\* update_lessons_index.py
UpdateIndex ==
  /\ last = Idle
  /\ index_file' = update_index_main(docs, Today, day)
  /\ last' = [op |-> "update_index", exit |-> 0]
  /\ UNCHANGED <<docs, legacy_file, day, runs>>

\* What a preflight run leaves for the next reader: its exit and the artifact
\* it wrote, if any.
PreflightResult(r) ==
  IF r.written
  THEN [op |-> "preflight", exit |-> r.exit, written |-> TRUE, artifact |-> r.artifact]
  ELSE [op |-> "preflight", exit |-> r.exit, written |-> FALSE]

\* agent_lessons_preflight.py, run with a task of Tasks and the other
\* arguments drawn from Others.
PreflightWith(Tasks, Others) ==
  /\ last = Idle
  /\ \E task \in Tasks :
       LET prepared == preflight_prepare(docs, index_file, task, Today)
       IN  \E args \in Others :
             last' = PreflightResult(preflight_main(prepared, legacy_file, args, Today))
  /\ UNCHANGED <<docs, index_file, legacy_file, day, runs>>

\* The defaults of --top and of the three quotas.
DefaultTop == 5

DefaultMax == 2

\* The task text of the sample runbook's kind.
SampleTask == <<"f", "i", "x", " ", "s", "s", "h", " ", "a", "l", "i", "a", "s">>

DefaultArgs ==
  [top |-> DefaultTop, principles_max |-> DefaultMax,
   patterns_max |-> DefaultMax, cases_max |-> DefaultMax]

PreflightDefault == PreflightWith({SampleTask}, {DefaultArgs})

\* The caller has read the result; the next command can run.
Done ==
  /\ last # Idle
  /\ last' = Idle
  /\ UNCHANGED <<docs, index_file, legacy_file, day, runs>>

Next == Promote \/ UpdateIndex \/ PreflightDefault \/ Done

Spec == Init /\ [][Next]_vars

----------------------------------------------------------------------------
(* The second state machine: preflight runs with any --top and quotas, on  *)
(* a repository whose index file anyone can have rewritten or removed.     *)

\* A lessons entry of a hand-written index file: the keys it gives.
IndexEntry(id, level, status, confidence, tags, last_validated_at) ==
  [id |-> id, level |-> level, status |-> status, tags |-> tags,
   confidence |-> confidence, transferability |-> PyAbsent,
   source_case_ids |-> PyAbsent, last_validated_at |-> last_validated_at,
   title |-> PyAbsent, summary |-> PyAbsent, path |-> PyAbsent]

\* index.json is no JSON text.
IndexUnparsable == [kind |-> "unparsable"]

\* {}
IndexNoLessons == [kind |-> "object", lessons |-> PyAbsent]

\* {"lessons": 5}
IndexLessonsNoList == [kind |-> "object", lessons |-> PyI(5)]

\* {"lessons": [{"id": "x", "confidence": "high"}]}
IndexBadScore ==
  [kind |-> "object",
   lessons |-> PyL(<<IndexEntry(PyS(<<"x">>), PyAbsent, PyAbsent, PyS(<<"h", "i", "g", "h">>), PyAbsent, PyAbsent)>>)]

\* {"lessons": [a retired principle r1 with confidence 2000 and tag ssh,
\*              a canonical pattern p9 with confidence 4]}
IndexRetiredHigh ==
  [kind |-> "object",
   lessons |-> PyL(<<IndexEntry(PyS(<<"r", "1">>), PyS(S_principle), PyS(S_retired), PyI(2000),
                                PyL(<<<<"s", "s", "h">>>>), PyS(Calendar[1])),
                     IndexEntry(PyS(<<"p", "9">>), PyS(S_pattern), PyS(S_canonical), PyI(4),
                                PyL(<<<<"s", "s", "h">>>>), PyS(Calendar[1]))>>)]

TamperedIndexes ==
  {IndexAbsent, IndexUnparsable, IndexNoLessons, IndexLessonsNoList, IndexBadScore, IndexRetiredHigh}

InitPreflight ==
  /\ docs \in {EmptyCorpus, TwoCases(S_retired), TwoCases(S_validated)}
  /\ index_file = IndexAbsent
  /\ legacy_file \in {NoLegacy, LegacyHeadings}
  /\ day = 1
  /\ last = Idle
  /\ runs = NoRuns

\* The promotions of the sample runbook: a case to a pattern citing c2, a
\* pattern to a principle citing c3.
ScenarioArgs ==
  {[target_level |-> S_pattern, new_id |-> <<>>, title |-> <<>>, source_case_ids |-> <<S_c2>>, force |-> FALSE],
   [target_level |-> S_principle, new_id |-> <<>>, title |-> <<>>, source_case_ids |-> <<S_c3>>, force |-> FALSE]}

PromoteScenario == PromoteWith(ScenarioArgs)

\* Someone rewrites or removes index.json.
TamperIndex ==
  /\ last = Idle
  /\ index_file' \in TamperedIndexes \ {index_file}
  /\ UNCHANGED <<docs, legacy_file, day, last, runs>>

\* The clock reaches the next day of the calendar.
AdvanceDay ==
  /\ last = Idle
  /\ day < Len(Calendar)
  /\ day' = day + 1
  /\ UNCHANGED <<docs, index_file, legacy_file, last, runs>>

PreflightArgs ==
  [top : (0 - 1)..MaxTop, principles_max : 0..MaxQuota, patterns_max : 0..MaxQuota, cases_max : 0..MaxQuota]

\* A run with any --top and quotas of the model.
Preflight == PreflightWith({SampleTask}, PreflightArgs)

\* A task text with a hyphen and capitals, whose tokens are key, acl, review.
ReviewTask == <<"K", "e", "y", "-", "A", "C", "L", " ", "r", "e", "v", "i", "e", "w">>

\* A run for another task, with the defaults.
PreflightReview == PreflightWith({ReviewTask}, {DefaultArgs})

\* The runs of this machine are all made on one day; the clock moves in the
\* third machine.
NextPreflight ==
  PromoteScenario \/ UpdateIndex \/ TamperIndex \/ Preflight \/ PreflightReview \/ Done

SpecPreflight == InitPreflight /\ [][NextPreflight]_vars

----------------------------------------------------------------------------
(* The third state machine: documents as authors write them by hand, with  *)
(* any text for the scores, the date, the level and the status, scanned    *)
(* and indexed on different days.                                          *)

\* A hand-written document: score_lines and date_lines are the lines that
\* give confidence and transferability and last_validated_at, or no line.
AuthoredDoc(id, level, tags, title, score_lines, date_lines) ==
  <<<<"-", "-", "-">>,
    <<"i", "d", ":", " ">> \o id,
    <<"l", "e", "v", "e", "l", ":", " ">> \o level,
    <<"s", "t", "a", "t", "u", "s", ":", " ", "v", "a", "l", "i", "d", "a", "t", "e", "d">>,
    <<"t", "a", "g", "s", ":", " ", "[">> \o tags \o <<"]">>>>
  \o score_lines
  \o <<<<"s", "o", "u", "r", "c", "e", "_", "c", "a", "s", "e", "_", "i", "d", "s", ":", " ", "[", "]">>>>
  \o date_lines
  \o <<<<"t", "i", "t", "l", "e", ":", " ">> \o title,
       <<"s", "u", "m", "m", "a", "r", "y", ":", " ">> \o title \o <<" ", "s", "u", "m", "m", "a", "r", "y", ".">>,
       <<"-", "-", "-">>,
       <<>>,
       <<"#", " ">> \o title>>

AuthoredPath(id, level) == [folder |-> LEVEL_TO_FOLDER(level), stem |-> id]

\* What an author can type after "confidence:" and "transferability:":
\* integers in and out of range, a word, nothing, a boolean, a decimal, a
\* quoted number, a signed number.
ScoreTexts ==
  {<<"0">>, <<"-", "2">>, <<"3">>, <<"5">>, <<"6">>, <<"1", "2">>, <<"h", "i", "g", "h">>, <<>>, <<"t", "r", "u", "e">>, <<"4", ".", "5">>, <<"'", "4", "'">>, <<"+", "5">>}

ScoreLines(text) ==
  <<<<"c", "o", "n", "f", "i", "d", "e", "n", "c", "e", ":", " ">> \o text,
    <<"t", "r", "a", "n", "s", "f", "e", "r", "a", "b", "i", "l", "i", "t", "y", ":", " ">> \o text>>

\* The last_validated_at line: none, a date, a word, a day that no month has.
DateLines ==
  {<<>>,
   <<<<"l", "a", "s", "t", "_", "v", "a", "l", "i", "d", "a", "t", "e", "d", "_", "a", "t", ":", " ">> \o Calendar[1]>>,
   <<<<"l", "a", "s", "t", "_", "v", "a", "l", "i", "d", "a", "t", "e", "d", "_", "a", "t", ":", " ", "s", "o", "o", "n">>>>,
   <<<<"l", "a", "s", "t", "_", "v", "a", "l", "i", "d", "a", "t", "e", "d", "_", "a", "t", ":", " ", "2", "0", "2", "6", "-", "0", "2", "-", "3", "0">>>>}

\* One case q1 for every text of the scores and of the date.
AuthoredCorpora ==
  {AuthoredPath(<<"q", "1">>, S_case) :>
     AuthoredDoc(<<"q", "1">>, S_case, <<"s", "s", "h">>, <<"K", "e", "y", " ", "A", "C", "L">>, score_lines, date_lines) :
     score_lines \in {<<>>} \cup {ScoreLines(text) : text \in ScoreTexts}, date_lines \in DateLines}

\* Two cases a1 and a2 that differ by their id alone, and a pattern b1 whose
\* score for the sample task is theirs: the pattern's level weight is 10
\* more, the cases have two token hits and two tag hits.
TieCorpus ==
  (AuthoredPath(<<"a", "1">>, S_case) :>
     AuthoredDoc(<<"a", "1">>, S_case, <<"s", "s", "h", ",", " ", "a", "l", "i", "a", "s">>, <<"H", "o", "s", "t", " ", "a", "l", "i", "a", "s">>,
                 ScoreLines(<<"5">>), <<<<"l", "a", "s", "t", "_", "v", "a", "l", "i", "d", "a", "t", "e", "d", "_", "a", "t", ":", " ">> \o Calendar[1]>>))
  @@ (AuthoredPath(<<"a", "2">>, S_case) :>
     AuthoredDoc(<<"a", "2">>, S_case, <<"s", "s", "h", ",", " ", "a", "l", "i", "a", "s">>, <<"H", "o", "s", "t", " ", "a", "l", "i", "a", "s">>,
                 ScoreLines(<<"5">>), <<<<"l", "a", "s", "t", "_", "v", "a", "l", "i", "d", "a", "t", "e", "d", "_", "a", "t", ":", " ">> \o Calendar[1]>>))
  @@ (AuthoredPath(<<"b", "1">>, S_pattern) :>
     AuthoredDoc(<<"b", "1">>, S_pattern, <<"a", "c", "l">>, <<"K", "e", "y", " ", "A", "C", "L">>,
                 ScoreLines(<<"5">>), <<<<"l", "a", "s", "t", "_", "v", "a", "l", "i", "d", "a", "t", "e", "d", "_", "a", "t", ":", " ">> \o Calendar[1]>>))

\* A hand-written document whose level and status are given by level_lines
\* and status_lines, or by no line.
LabelledDoc(id, level_lines, status_lines) ==
  <<<<"-", "-", "-">>,
    <<"i", "d", ":", " ">> \o id>>
  \o level_lines
  \o status_lines
  \o <<<<"t", "a", "g", "s", ":", " ", "[", "s", "s", "h", "]">>,
       <<"-", "-", "-">>,
       <<>>,
       <<"#", " ", "K", "e", "y", " ", "A", "C", "L">>>>

\* The level line: none, or what an author can type after "level:": a level,
\* a level in capitals, one quoted with blanks around it, an unknown word, a
\* number, a bracketed list, a boolean, nothing.
LevelLines ==
  {<<>>} \cup
  {<<<<"l", "e", "v", "e", "l", ":", " ">> \o text>> :
     text \in {S_case, S_pattern, <<"P", "R", "I", "N", "C", "I", "P", "L", "E">>, <<"'", " ", "P", "a", "t", "t", "e", "r", "n", " ", "'">>, <<"e", "x", "p", "e", "r", "t">>, <<"0">>, <<"[", "p", "a", "t", "t", "e", "r", "n", "]">>, <<"t", "r", "u", "e">>, <<>>}}

\* The status line: none, or what an author can type after "status:": a
\* status, one with a capital, one quoted with a blank before it, an unknown
\* word, a boolean, nothing.
StatusLines ==
  {<<>>} \cup
  {<<<<"s", "t", "a", "t", "u", "s", ":", " ">> \o text>> :
     text \in {S_retired, S_validated, <<"C", "a", "n", "o", "n", "i", "c", "a", "l">>, <<"'", " ", "r", "e", "t", "i", "r", "e", "d", "'">>, <<"d", "o", "n", "e">>, <<"f", "a", "l", "s", "e">>, <<>>}}

\* One document r1: in each of the three folders with every level line and a
\* status of validated, and in the folder of the cases with every status line
\* and no level line.
LabelledCorpora ==
  {AuthoredPath(<<"r", "1">>, folder_level) :>
     LabelledDoc(<<"r", "1">>, level_lines, <<<<"s", "t", "a", "t", "u", "s", ":", " ">> \o S_validated>>) :
     folder_level \in Range(LEVELS), level_lines \in LevelLines}
  \cup
  {AuthoredPath(<<"r", "1">>, S_case) :> LabelledDoc(<<"r", "1">>, <<>>, status_lines) :
     status_lines \in StatusLines}

\* A legacy headings file with two headings that differ by their case and
\* punctuation alone.
LegacyRepeated ==
  [exists |-> TRUE,
   lines |-> <<<<"#", " ", "L", "e", "s", "s", "o", "n", "s">>, <<>>, <<"#", "#", " ", "R", "o", "t", "a", "t", "e">>, <<"#", "#", " ", "P", "i", "n", " ", "h", "o", "s", "t", "s">>, <<"#", "#", " ", "r", "o", "t", "a", "t", "e", "!">>>>]

InitAuthored ==
  /\ docs \in AuthoredCorpora \cup LabelledCorpora \cup {TieCorpus, EmptyCorpus}
  /\ index_file = IndexAbsent
  /\ legacy_file \in {NoLegacy, LegacyRepeated}
  /\ day = 1
  /\ last = Idle
  /\ runs = NoRuns

NextAuthored == UpdateIndex \/ AdvanceDay \/ PreflightDefault \/ Done

SpecAuthored == InitAuthored /\ [][NextAuthored]_vars

----------------------------------------------------------------------------
(* The fourth state machine: promotions started together on one corpus.    *)
(* Each run goes through promote_lesson.py in the order of its accesses to *)
(* the file system: the scan and the validations made on it, the test of   *)
(* the target path, the write of the document, the scan after the write,   *)
(* the write of the index. Nothing holds a run back while another one is   *)
(* between two of its steps.                                               *)

\* The number of promotions started together.
MaxRuns == 2

RunIds == 1..MaxRuns

S_promoted_c1 == promote_new_id(<<>>, S_pattern, promote_title(<<>>, S_pattern, [id |-> PyS(S_c1)]))

\* The command lines of the runs: c1 to a pattern citing c2, c2 to a pattern
\* citing c1, c1 to a pattern citing nothing, c2 to a principle, and the
\* pattern that the first of these writes to a principle citing c3.
RaceArgs ==
  {[source_id |-> S_c1, target_level |-> S_pattern, new_id |-> <<>>, title |-> <<>>, source_case_ids |-> <<S_c2>>, force |-> FALSE],
   [source_id |-> S_c2, target_level |-> S_pattern, new_id |-> <<>>, title |-> <<>>, source_case_ids |-> <<S_c1>>, force |-> FALSE],
   [source_id |-> S_c1, target_level |-> S_pattern, new_id |-> <<>>, title |-> <<>>, source_case_ids |-> <<>>, force |-> FALSE],
   [source_id |-> S_c2, target_level |-> S_principle, new_id |-> <<>>, title |-> <<>>, source_case_ids |-> <<S_c1, S_c3>>, force |-> FALSE],
   [source_id |-> S_promoted_c1, target_level |-> S_principle, new_id |-> <<>>, title |-> <<>>, source_case_ids |-> <<S_c3>>, force |-> FALSE]}

InitRace ==
  /\ docs = TwoCases(S_validated)
  /\ index_file = IndexAbsent
  /\ legacy_file = NoLegacy
  /\ day = 1
  /\ last = Idle
  /\ runs = [p \in RunIds |-> [pc |-> "start"]]

\* A run leaves with an exit message before it has written anything.
RunExited(p, args, outcome) ==
  /\ runs' = [runs EXCEPT ![p] = [pc |-> "exited", args |-> args, outcome |-> outcome]]
  /\ last' = [op |-> "promote_run", run |-> p, outcome |-> outcome]

\* The validations made on the scan, and the values computed from it.
RunPlanned(p, args, found, scanned) ==
  IF ~found.found THEN RunExited(p, args, "NotFound")
  ELSE IF ~transition_ok(found.entry.level.s, args.target_level) THEN RunExited(p, args, "InvalidTransition")
  ELSE IF ~provenance_ok(args.target_level, provenance_of(found.entry, args.source_case_ids))
  THEN RunExited(p, args, "InsufficientProvenance")
  ELSE /\ runs' = [runs EXCEPT ![p] =
                     [pc |-> "planned", args |-> args, scanned |-> scanned, source |-> found.entry,
                      provenance |-> provenance_of(found.entry, args.source_case_ids),
                      title |-> promote_title(args.title, args.target_level, found.entry)]]
       /\ last' = last

\* entries = collect_lessons(lessons_root) and all that is computed from the
\* entries alone.
RunScan(p) ==
  /\ runs[p].pc = "start"
  /\ \E args \in RaceArgs :
       RunPlanned(p, args, find_source(collect_lessons(docs, Today), args.source_id), DOMAIN docs)
  /\ UNCHANGED <<docs, index_file, legacy_file, day>>

\* The target path of a run that has its title.
RunTarget(r) ==
  promote_target_path(r.args.target_level, promote_new_id(r.args.new_id, r.args.target_level, r.title))

\* target_path.exists() and not args.force, then the metadata and the text
\* of the document.
RunCheckTarget(p) ==
  /\ runs[p].pc = "planned"
  /\ IF target_conflict(docs, RunTarget(runs[p]), runs[p].args.force)
     THEN RunExited(p, runs[p].args, "Conflict")
     ELSE /\ runs' = [runs EXCEPT ![p] =
                        [pc |-> "checked", args |-> runs[p].args, scanned |-> runs[p].scanned,
                         target_path |-> RunTarget(runs[p]),
                         document |-> promote_document(
                           promote_metadata(runs[p].source, runs[p].args.target_level, runs[p].provenance,
                                            runs[p].title, RunTarget(runs[p]).stem, Today),
                           runs[p].title, runs[p].source)]]
          /\ last' = last
  /\ UNCHANGED <<docs, index_file, legacy_file, day>>

\* target_path.write_text(...)
RunWrite(p) ==
  /\ runs[p].pc = "checked"
  /\ docs' = documents_after("ok", docs, runs[p].target_path, runs[p].document)
  /\ runs' = [runs EXCEPT ![p] =
                [pc |-> "written", args |-> runs[p].args, scanned |-> runs[p].scanned,
                 target_path |-> runs[p].target_path]]
  /\ UNCHANGED <<index_file, legacy_file, day, last>>

\* updated_entries = collect_lessons(lessons_root); index = build_index(...)
RunRescan(p) ==
  /\ runs[p].pc = "written"
  /\ runs' = [runs EXCEPT ![p] =
                [pc |-> "rescanned", args |-> runs[p].args, scanned |-> runs[p].scanned,
                 target_path |-> runs[p].target_path, rescanned |-> DOMAIN docs,
                 index |-> build_index(collect_lessons(docs, Today), day)]]
  /\ UNCHANGED <<docs, index_file, legacy_file, day, last>>

\* write_index(index, index_path), and the run returns 0.
RunWriteIndex(p) ==
  /\ runs[p].pc = "rescanned"
  /\ index_file' = runs[p].index
  /\ runs' = [runs EXCEPT ![p] =
                [pc |-> "done", args |-> runs[p].args, scanned |-> runs[p].scanned,
                 target_path |-> runs[p].target_path, rescanned |-> runs[p].rescanned]]
  /\ last' = [op |-> "promote_run", run |-> p, outcome |-> "ok"]
  /\ UNCHANGED <<docs, legacy_file, day>>

NextRace ==
  \E p \in RunIds : RunScan(p) \/ RunCheckTarget(p) \/ RunWrite(p) \/ RunRescan(p) \/ RunWriteIndex(p)

SpecRace == InitRace /\ [][NextRace]_vars

----------------------------------------------------------------------------
(* The fifth state machine: promotions on a repository whose index file    *)
(* anyone can have rewritten or removed, each leaving in last the call     *)
(* that was made and the index file that it found.                         *)

InitSeen ==
  /\ docs = TwoCases(S_validated)
  /\ index_file = IndexAbsent
  /\ legacy_file = NoLegacy
  /\ day = 1
  /\ last = Idle
  /\ runs = NoRuns

\* The promotions of the sample runbook, and promotions to a pattern whose
\* --new-id, --title or --source-case-id is a text that the front matter
\* reads as something else than a plain text: digits with a leading zero and
\* a boolean; a quoted text, a bracketed list and an id with a comma in it.
SeenArgs ==
  ScenarioArgs \cup
  {[target_level |-> S_pattern, new_id |-> <<"0", "0", "7">>, title |-> <<"t", "r", "u", "e">>, source_case_ids |-> <<S_c2>>, force |-> FALSE],
   [target_level |-> S_pattern, new_id |-> <<"'", "k", "'">>, title |-> <<"[", "a", ",", " ", "b", "]">>, source_case_ids |-> <<<<"c", "2", ",", "c", "3">>>>, force |-> FALSE]}

\* What a run of the fifth machine leaves for the next reader: the call, the
\* index file that the run found, its exit and, when it returns 0, what it
\* wrote.
SeenResult(r, args, found) ==
  IF r.outcome = "ok"
  THEN [op |-> "promote", outcome |-> r.outcome, args |-> args, index_before |-> found,
        target_path |-> r.target_path, metadata |-> r.metadata]
  ELSE [op |-> "promote", outcome |-> r.outcome, args |-> args, index_before |-> found]

\* promote_lesson.py, run with one of these promotions on a source id that is
\* one of the corpus or one that is not.
PromoteSeen ==
  /\ last = Idle
  /\ Cardinality(DOMAIN docs) < MaxDocs
  /\ LET entries == collect_lessons(docs, Today)
     IN  \E source_id \in {entries[i].id.s : i \in 1..Len(entries)} \cup {<<"z", "z">>}, o \in SeenArgs :
           LET args == [source_id |-> source_id, target_level |-> o.target_level,
                        new_id |-> o.new_id, title |-> o.title,
                        source_case_ids |-> o.source_case_ids, force |-> o.force]
           IN  \E r \in {promote_main(entries, docs, index_file, args, Today, day)} :
                 /\ docs' = r.corpus
                 /\ index_file' = r.index_file
                 /\ last' = SeenResult(r, args, index_file)
  /\ UNCHANGED <<legacy_file, day, runs>>

NextSeen == PromoteSeen \/ UpdateIndex \/ TamperIndex \/ Done

SpecSeen == InitSeen /\ [][NextSeen]_vars

----------------------------------------------------------------------------
(* Properties. A run's result stays in last until the caller has read it   *)
(* (Done), and nothing else runs in between: at a state where last holds a *)
(* result, docs and index_file are what that run left.                     *)
(* In the fourth machine, where runs overlap, last is the exit of the run   *)
(* that ended last.                                                        *)

PromoteOk == last.op = "promote" /\ last.outcome = "ok"

PreflightWritten == last.op = "preflight" /\ last.written

\* The entry a scan of the corpus returns for the document at path.
ScannedAt(path) ==
  LET entries == collect_lessons(docs, Today)
  IN  entries[CHOOSE i \in 1..Len(entries) : entries[i].path = PyS(RelPath(path))]

\* The number of matches of a level.
LevelCount(matches, level) ==
  Cardinality({i \in 1..Len(matches) : matches[i].level = PyS(level)})

\* C1: in every artifact preflight writes, the matches of level principle,
\* pattern and case number at most principlesMax, patternsMax and casesMax,
\* the entries of the ranked pass and of the fallback_latest_validated pass
\* counted together. The fallback pass checks no quota: the property fails.
C1_QuotaRespected ==
  PreflightWritten =>
    /\ LevelCount(last.artifact.matches, S_principle) <= last.artifact.selection.principlesMax
    /\ LevelCount(last.artifact.matches, S_pattern) <= last.artifact.selection.patternsMax
    /\ LevelCount(last.artifact.matches, S_case) <= last.artifact.selection.casesMax

\* C2: no match of an artifact has the status retired, whichever tier chose
\* it, whether the entries came from the index file or from a scan, and
\* whatever its score.
C2_NoRetiredSelected ==
  PreflightWritten =>
    \A i \in 1..Len(last.artifact.matches) : last.artifact.matches[i].status # PyS(S_retired)

\* A run that read the index file, found in it a retired entry whose score is
\* positive, and selected something.
C2_Witness ==
  /\ PreflightWritten
  /\ last.artifact.source = "index"
  /\ last.artifact.matchCount > 0
  /\ index_file.kind = "object"
  /\ \E i \in 1..Len(index_file.lessons.l) :
       /\ index_file.lessons.l[i].status = PyS(S_retired)
       /\ score_entry(index_file.lessons.l[i], last.artifact.tokens, Today).score > 0

\* The least size of the provenance of a promotion to a level.
ProvenanceNeeded(target_level) == IF target_level = S_pattern THEN 2 ELSE 3

\* C3: after a successful promotion the source_case_ids of the new entry, as
\* written to the document and as a scan reads them back, hold at least 2
\* distinct ids for a pattern and 3 for a principle. The threshold counts an
\* empty or blank --source-case-id that the document then does not keep: the
\* property fails.
C3_ProvenanceSize ==
  PromoteOk =>
    /\ Cardinality(Range(MetaGet(last.metadata, K_source_case_ids).l))
         >= ProvenanceNeeded(last.target_level)
    /\ Cardinality(Range(ScannedAt(last.target_path).source_case_ids.l))
         >= ProvenanceNeeded(last.target_level)

C5_FailureWritesNothing ==
  [][(last'.op = "promote" /\ last'.outcome # "ok") => (docs' = docs /\ index_file' = index_file)]_vars

\* A promotion has failed for its provenance in a repository that has an index
\* file.
C5_Witness ==
  /\ last.op = "promote"
  /\ last.outcome = "InsufficientProvenance"
  /\ index_file.kind = "object"
  /\ docs # EmptyCorpus

\* The statuses in the order of their escalation; retired is below them all.
StatusRank(status) ==
  IF status = S_candidate THEN 1
  ELSE IF status = S_validated THEN 2
  ELSE IF status = S_canonical THEN 3
  ELSE 0

\* The status and the scores of the entry a promotion has created, as written
\* and as a scan reads them: the status of the target level, each score the
\* larger of the source's and 3.
PromotedValues ==
  \A created \in {ScannedAt(last.target_path)} :
    /\ MetaGet(last.metadata, K_status) = PyS(promoted_status(last.target_level))
    /\ created.status = PyS(IF last.target_level = S_pattern THEN S_validated ELSE S_canonical)
    /\ created.confidence = PyI(Max(last.source.confidence.n, 3))
    /\ created.transferability = PyI(Max(last.source.transferability.n, 3))
    /\ created.confidence.n >= last.source.confidence.n
    /\ created.transferability.n >= last.source.transferability.n

\* C6 as stated: after a successful promotion the status of the new entry is
\* strictly above the source's (validated for a pattern, canonical for a
\* principle), and its confidence and transferability are max(source, 3).
C6_StatusStrictlyEscalated ==
  PromoteOk =>
    /\ PromotedValues
    /\ StatusRank(ScannedAt(last.target_path).status.s) > StatusRank(last.source.status.s)

\* C6, amended: after a successful promotion the status of the new entry is
\* validated for a pattern and canonical for a principle, whatever the
\* source's status, and its confidence and transferability are max(source, 3),
\* never below the source's.
C6_PromotedValues == PromoteOk => PromotedValues

\* A promotion whose source has a confidence below 3 and a transferability
\* above it.
C6_Witness ==
  /\ PromoteOk
  /\ last.source.confidence.n < 3
  /\ last.source.transferability.n > 3

\* The preflight run of the sample runbook, made on the repository as it is.
PreflightNow == preflight_main(preflight_prepare(docs, index_file, SampleTask, Today),
                               legacy_file, DefaultArgs, Today)

\* C7: after a successful promotion the index file is, generatedAt apart, the
\* index built from a scan of the corpus, and lists the new entry; a preflight
\* run made next reads the index file and selects an entry of level pattern or
\* principle.
C7_IndexFreshAfterPromote ==
  PromoteOk =>
    /\ [index_file EXCEPT !.generatedAt = 0] = build_index(collect_lessons(docs, Today), 0)
    /\ \E i \in 1..Len(index_file.lessons.l) :
         /\ index_file.lessons.l[i].path = PyS(RelPath(last.target_path))
         /\ index_file.lessons.l[i].id = MetaGet(last.metadata, K_id)
    /\ \A run \in {PreflightNow} :
         /\ run.written
         /\ run.artifact.source = "index"
         /\ run.artifact.matchCount > 0
         /\ \E i \in 1..Len(run.artifact.matches) :
              run.artifact.matches[i].level \in {PyS(S_pattern), PyS(S_principle)}

\* A pattern has been promoted to a principle, and the preflight run made next
\* selects that principle from the index file.
C7_Witness ==
  /\ PromoteOk
  /\ last.source.level.s = S_pattern
  /\ PreflightNow.artifact.source = "index"
  /\ \E i \in 1..Len(PreflightNow.artifact.matches) :
       /\ PreflightNow.artifact.matches[i].path = PyS(RelPath(last.target_path))
       /\ PreflightNow.artifact.matches[i].level = PyS(S_principle)

\* C8: a preflight run ends with exit 0 and writes its artifact, whatever the
\* corpus, the index file and the legacy headings file, --top and the quotas;
\* on an empty corpus with neither index file nor legacy headings file the
\* artifact has matchCount 0 and fallbackUsed true. An index file with an
\* entry whose confidence is no number makes the run end with a traceback:
\* the property fails.
C8_PreflightNeverFails ==
  last.op = "preflight" =>
    /\ last.exit = 0
    /\ last.written
    /\ (docs = EmptyCorpus /\ index_file = IndexAbsent /\ legacy_file = NoLegacy)
         => (last.artifact.matchCount = 0 /\ last.artifact.fallbackUsed)

\* C9: the ids a scan of the corpus returns are non-empty and pairwise
\* distinct in every reachable state. A promotion with --new-id set to an id
\* of another level's folder is written: the property fails.
C9_IdsUnique ==
  LET entries == collect_lessons(docs, Today)
  IN  \A i, j \in 1..Len(entries) :
        /\ entries[i].id.s # <<>>
        /\ (i # j => entries[i].id # entries[j].id)

\* C10: a promotion whose target document exists and that is run without
\* --force fails with Conflict and leaves the document as it was; a promotion
\* replaces an existing document only when --force is set.
C10_ConflictKeepsDocument ==
  [][(last'.op = "promote") =>
       /\ (last'.outcome = "Conflict" =>
             /\ ~last'.force
             /\ last'.target_path \in DOMAIN docs
             /\ docs'[last'.target_path] = docs[last'.target_path])
       /\ (last'.outcome = "ok" /\ ~last'.force => last'.target_path \notin DOMAIN docs)
       /\ \A p \in DOMAIN docs :
            docs'[p] # docs[p] => (last'.outcome = "ok" /\ last'.force /\ last'.target_path = p)]_vars

\* A promotion has failed with Conflict on a document that another promotion
\* had written.
C10_Witness ==
  /\ last.op = "promote"
  /\ last.outcome = "Conflict"
  /\ ~last.force
  /\ last.target_path \in DOMAIN docs

C12_RebuildIdempotent ==
  [][(/\ last'.op = "update_index"
      /\ docs' = docs
      /\ index_file.kind = "object"
      /\ index_file = update_index_main(docs, Calendar[index_file.generatedAt], index_file.generatedAt))
     => (index_file'.lessons = index_file.lessons /\ index_file'.stats = index_file.stats)]_vars

\* The document at path gives the key a value that is an integer or a text
\* that int() reads as one.
IsIntegerValue(raw) == raw.t = "int" \/ (raw.t = "str" /\ ToInt(raw).ok)

\* The score C13 gives a raw metadata value: an integer brought into 1..5,
\* 3 for a value that is absent or no number.
ClaimedScore(raw) ==
  IF ~IsIntegerValue(raw) THEN 3
  ELSE IF ToInt(raw).n < 1 THEN 1
  ELSE IF ToInt(raw).n > 5 THEN 5
  ELSE ToInt(raw).n

\* C13: the confidence and the transferability of every scanned entry are
\* integers of 1..5: an integer below 1 gives 1, one above 5 gives 5, one in
\* range itself, an absent or non-numeric value 3. The values true and false
\* are read as booleans, which int() takes for 1 and 0: both give 1, not 3,
\* and the property fails.
C13_ScoresClamped ==
  \A p \in DOMAIN docs :
    \A meta \in {parse_frontmatter(docs[p]).meta}, entry \in {ScannedAt(p)} :
      /\ entry.confidence.t = "int" /\ entry.confidence.n \in 1..5
      /\ entry.transferability.t = "int" /\ entry.transferability.n \in 1..5
      /\ entry.confidence.n = ClaimedScore(MetaGet(meta, K_confidence))
      /\ entry.transferability.n = ClaimedScore(MetaGet(meta, K_transferability))

\* The matches of an artifact that a tier chose, in the artifact's order.
MatchesOf(reason) ==
  LET Is(m) == m.reason = reason
  IN  SelectSeq(last.artifact.matches, Is)

\* C14: the ranked pass takes its candidates in descending (score, level,
\* id): the higher score first; of equal scores the higher level first
\* (principle over pattern over case); of equal score and level the greater
\* id first. The sort key holds the level's rank negated and is sorted in
\* reverse, so of equal scores the case comes before the pattern and the
\* pattern before the principle: the property fails.
C14_RankedOrder ==
  PreflightWritten =>
    \A ranked \in {MatchesOf("ranked")} :
      \A i, j \in 1..Len(ranked) :
        i < j =>
          \/ ranked[i].score > ranked[j].score
          \/ /\ ranked[i].score = ranked[j].score
             /\ \/ LEVEL_ORDER(ranked[i].level.s) > LEVEL_ORDER(ranked[j].level.s)
                \/ /\ ranked[i].level = ranked[j].level
                   /\ StrLess(ranked[j].id.s, ranked[i].id.s)

\* The day of last_validated_at, as parse_iso_date reads it, of the entry a
\* match was made from: the entry with the match's id and level among those
\* the run loaded.
MatchDate(loaded, m) ==
  LET at == CHOOSE i \in 1..Len(loaded) :
              GetNone(loaded[i].id) = m.id /\ GetNone(loaded[i].level) = m.level
  IN  parse_iso_date(ToStr(GetOr(loaded[at].last_validated_at, PyS(<<>>))))

\* C15: when the ranked pass has chosen fewer than topN entries, the slots
\* left are filled only from entries whose status is validated or canonical
\* and that are not chosen yet, in descending (last_validated_at, level, id):
\* the most recent date first, then the higher level, then the greater id.
\* The sort key holds the level's rank negated and is sorted in reverse, so of
\* equal dates the case comes before the pattern: the property fails.
C15_FallbackOrder ==
  PreflightWritten =>
    \A ranked \in {MatchesOf("ranked")}, filled \in {MatchesOf("fallback_latest_validated")},
       loaded \in {load_entries(docs, index_file, Today).entries} :
      /\ filled # <<>> => Len(ranked) < last.artifact.selection.top
      /\ \A i \in 1..Len(filled) :
           /\ filled[i].status \in {PyS(S_validated), PyS(S_canonical)}
           /\ \A k \in 1..Len(ranked) : ranked[k].id # filled[i].id
      /\ \A i, j \in 1..Len(filled) :
           i < j =>
             \/ MatchDate(loaded, filled[i]) > MatchDate(loaded, filled[j])
             \/ /\ MatchDate(loaded, filled[i]) = MatchDate(loaded, filled[j])
                /\ \/ LEVEL_ORDER(filled[i].level.s) > LEVEL_ORDER(filled[j].level.s)
                   \/ /\ filled[i].level = filled[j].level
                      /\ StrLess(filled[j].id.s, filled[i].id.s)

\* C16: the legacy tier is used only when the ranked pass and the fallback
\* pass have chosen nothing: an artifact with a match of level legacy has no
\* match of level case, pattern or principle; every match names its tier in
\* its reason (ranked, fallback_latest_validated, fallback_legacy_headings),
\* and the reason is fallback_legacy_headings exactly for the matches of level
\* legacy.
C16_LegacyLastResort ==
  PreflightWritten =>
    \A matches \in {last.artifact.matches} :
      /\ (\E i \in 1..Len(matches) : matches[i].reason = "fallback_legacy_headings") =>
           /\ \A i \in 1..Len(matches) : matches[i].reason = "fallback_legacy_headings"
           /\ last.artifact.fallbackUsed
      /\ ~(/\ \E i \in 1..Len(matches) : matches[i].level = PyS(S_legacy)
           /\ \E i \in 1..Len(matches) :
                matches[i].level \in {PyS(S_case), PyS(S_pattern), PyS(S_principle)})
      /\ \A i \in 1..Len(matches) :
           /\ matches[i].reason \in {"ranked", "fallback_latest_validated", "fallback_legacy_headings"}
           /\ (matches[i].reason = "fallback_legacy_headings" <=> matches[i].level = PyS(S_legacy))

\* A run has selected legacy headings on a corpus that holds documents: the
\* index file it read lists no entry.
C16_Witness ==
  /\ PreflightWritten
  /\ MatchesOf("fallback_legacy_headings") # <<>>
  /\ docs # EmptyCorpus

\* C17: in every artifact, whatever --top and whichever tiers ran, matchCount
\* is the number of matches and at most topN, and no two matches have the same
\* id. The legacy tier makes an id from each heading and checks none against
\* the others, and headings[:top] with a negative --top keeps all headings but
\* the last ones: the property fails.
C17_AtMostTopDistinct ==
  PreflightWritten =>
    /\ last.artifact.matchCount = Len(last.artifact.matches)
    /\ last.artifact.matchCount <= last.artifact.selection.top
    /\ \A i, j \in 1..Len(last.artifact.matches) :
         i # j => last.artifact.matches[i].id # last.artifact.matches[j].id

\* The index file is present and well-formed: a JSON object whose "lessons",
\* if it has any, is a list.
IndexWellFormed ==
  index_file.kind = "object" /\ index_file.lessons.t \in {"list", "absent"}

\* A match was made from an entry of the list: it has the entry's id, level,
\* status and path.
MatchFrom(entries, m) ==
  \E i \in 1..Len(entries) :
    /\ GetNone(entries[i].id) = m.id
    /\ GetNone(entries[i].level) = m.level
    /\ GetNone(entries[i].status) = m.status
    /\ GetNone(entries[i].path) = m.path

\* C18: preflight takes its entries from the index file exactly when the file
\* is present and well-formed, and from a scan of the corpus otherwise; the
\* artifact's source says which ("index" or "scan"), and the entries selected
\* are entries of that source; an index file that is missing or cannot be read
\* makes no run fail.
C18_IndexElseScan ==
  last.op = "preflight" =>
    /\ ~IndexWellFormed => (last.exit = 0 /\ last.written)
    /\ last.written =>
         /\ last.artifact.source = (IF IndexWellFormed THEN "index" ELSE "scan")
         /\ (\E i \in 1..Len(last.artifact.matches) :
               last.artifact.matches[i].reason # "fallback_legacy_headings") =>
              \A entries \in {IF IndexWellFormed THEN index_file.lessons.l
                              ELSE collect_lessons(docs, Today)} :
                \A i \in 1..Len(last.artifact.matches) :
                  last.artifact.matches[i].reason # "fallback_legacy_headings" =>
                    MatchFrom(entries, last.artifact.matches[i])

\* A run has found an index file that is no JSON text, and has selected
\* entries of the scan.
C18_Witness ==
  /\ PreflightWritten
  /\ index_file = IndexUnparsable
  /\ last.artifact.source = "scan"
  /\ MatchesOf("ranked") # <<>>

\* The provenance C19 gives the entry a promotion creates: the source's own
\* source_case_ids, the --source-case-id values, and the source's id when the
\* source is a case.
ClaimedProvenance ==
  Range(last.source.source_case_ids.l) \cup Range(last.extra_ids)
  \cup (IF last.source.level.s = S_case THEN {last.source.id.s} ELSE {})

\* The inclusions C19 draws: the provenance of a principle holds that of its
\* pattern, and holds the pattern's id only if the pattern's provenance or the
\* --source-case-id values did.
ProvenanceInherited(ids) ==
  last.source.level.s = S_pattern =>
    /\ Range(last.source.source_case_ids.l) \subseteq ids
    /\ (last.source.id.s \in ids
          => last.source.id.s \in Range(last.source.source_case_ids.l) \cup Range(last.extra_ids))

C20_ProvenanceNamesCases ==
  \A entries \in {collect_lessons(docs, Today)} :
    \A i \in 1..Len(entries) :
      \A id \in Range(entries[i].source_case_ids.l) :
        \E k \in 1..Len(entries) :
          entries[k].id.s = id /\ entries[k].level.s = S_case

\* The paths that the index file lists.
IndexedPaths ==
  IF index_file.kind = "object"
  THEN {index_file.lessons.l[i].path.s : i \in 1..Len(index_file.lessons.l)}
  ELSE {}

\* The runs that have written their document and the index and returned 0.
RunsDone == {p \in RunIds : runs[p].pc = "done"}

\* C21: with promotions under way at once, nothing keeps the index file in
\* step with the corpus. The document of every run that has returned 0 is in
\* the corpus; the index file is there once a run has returned 0 and is the
\* one of a run that has: it lists exactly the documents that this run's scan
\* after its write found, and when the run that ended last returned 0 it is
\* that run's.
C21_LastIndexWriteWins ==
  /\ \A p \in RunsDone : runs[p].target_path \in DOMAIN docs
  /\ (RunsDone = {}) = (index_file = IndexAbsent)
  /\ RunsDone # {} =>
       \E w \in RunsDone : IndexedPaths = {RelPath(q) : q \in runs[w].rescanned}
  /\ (last # Idle /\ last.outcome = "ok") =>
       IndexedPaths = {RelPath(q) : q \in runs[last.run].rescanned}

\* Two runs have made their validations on the corpus as it was before either
\* wrote, both have returned 0, and the index file does not list the document
\* that one of them wrote and that is in the corpus.
C21_Witness ==
  /\ RunsDone = RunIds
  /\ \A p \in RunIds : runs[p].scanned = DOMAIN TwoCases(S_validated)
  /\ \E p \in RunIds :
       /\ runs[p].target_path \in DOMAIN docs
       /\ RelPath(runs[p].target_path) \notin IndexedPaths

\* The states of the index file that a run can find on a corpus: the index
\* of that corpus, the index of a corpus with no document (stale), and the
\* rewritten or removed ones.
IndexStates(corpus) ==
  TamperedIndexes \cup {update_index_main(corpus, Today, day), update_index_main(EmptyCorpus, Today, day)}

\* C22: a promotion does not read the index file. Whatever the index file
\* holds when the run starts (nothing, an unparsable text, an object without
\* a list of lessons, a stale or a current index), the same call on the same
\* documents leaves by the same exit with the same documents, and after a
\* run that returns 0 the index file is the same.
C22_IndexNeverRead ==
  [][(last'.op = "promote") =>
       \A entries \in {collect_lessons(docs, Today)} :
         \A found \in IndexStates(docs) :
           \A r \in {promote_main(entries, docs, found, last'.args, Today, day)} :
             /\ r.outcome = last'.outcome
             /\ r.corpus = docs'
             /\ (r.outcome = "ok" => r.index_file = index_file')]_vars

\* A promotion has returned 0 on a repository whose index file did not parse,
\* and has left the index of the corpus with the new document.
C22_Witness ==
  /\ last.op = "promote"
  /\ last.outcome = "ok"
  /\ last.index_before = IndexUnparsable
  /\ index_file = update_index_main(docs, Today, day)
  /\ Cardinality(DOMAIN docs) > 2

\* The level whose folder holds the document at path.
FolderLevel(path) == CHOOSE l \in Range(LEVELS) : LEVEL_TO_FOLDER(l) = path.folder

\* A metadata value taken as it stands: itself when it is one of the known
\* texts, otherwise the default.
ExactLabel(raw, known, default) ==
  IF raw.t = "str" /\ raw.s \in known THEN raw.s ELSE default

\* A metadata value taken without the blanks around it and in lower case:
\* the known text that this gives, otherwise the default.
FoldedLabel(raw, known, default) ==
  IF raw.t = "str" /\ Lower(Strip(raw.s)) \in known THEN Lower(Strip(raw.s)) ELSE default

\* C23 as stated: every document of the corpus scans to an entry whose level
\* is one of the three levels and whose status is one of the four statuses;
\* the level is the metadata value when that value is one of the three
\* levels and the level of the folder otherwise; the status is the metadata
\* value when that value is one of the four statuses and candidate otherwise.
\* A value that differs from a known one by capitals or by blanks inside its
\* quotes is taken for the known one, and the property fails.
C23_LabelsCoercedExact ==
  \A p \in DOMAIN docs :
    \A meta \in {parse_frontmatter(docs[p]).meta}, entry \in {ScannedAt(p)} :
      /\ entry.level.t = "str" /\ entry.level.s \in Range(LEVELS)
      /\ entry.status.t = "str" /\ entry.status.s \in Range(STATUS_VALUES)
      /\ entry.level.s = ExactLabel(MetaGet(meta, K_level), Range(LEVELS), FolderLevel(p))
      /\ entry.status.s = ExactLabel(MetaGet(meta, K_status), Range(STATUS_VALUES), S_candidate)

\* C23, amended: every document of the corpus scans to an entry whose level
\* is one of the three levels and whose status is one of the four statuses;
\* the metadata values are compared without the blanks around them and in
\* lower case: the level is the known level that the metadata value gives
\* and the level of the folder when it gives none; the status is the known
\* status that the metadata value gives and candidate when it gives none.
C23_LabelsCoerced ==
  \A p \in DOMAIN docs :
    \A meta \in {parse_frontmatter(docs[p]).meta}, entry \in {ScannedAt(p)} :
      /\ entry.level.t = "str" /\ entry.level.s \in Range(LEVELS)
      /\ entry.status.t = "str" /\ entry.status.s \in Range(STATUS_VALUES)
      /\ entry.level.s = FoldedLabel(MetaGet(meta, K_level), Range(LEVELS), FolderLevel(p))
      /\ entry.status.s = FoldedLabel(MetaGet(meta, K_status), Range(STATUS_VALUES), S_candidate)

\* The index has been rebuilt over a document whose metadata value for the
\* level is none of the three levels as it stands and gives, without its
\* blanks and in lower case, a level that is not the one of its folder; the
\* index lists the document with that level.
C23_Witness ==
  /\ last.op = "update_index"
  /\ \E p \in DOMAIN docs :
       \E raw \in {MetaGet(parse_frontmatter(docs[p]).meta, K_level)} :
         /\ raw.t = "str"
         /\ raw.s \notin Range(LEVELS)
         /\ FoldedLabel(raw, Range(LEVELS), FolderLevel(p)) # FolderLevel(p)
         /\ \E i \in 1..Len(index_file.lessons.l) :
              /\ index_file.lessons.l[i].path = PyS(RelPath(p))
              /\ index_file.lessons.l[i].level = PyS(Lower(Strip(raw.s)))

\* C24: after a promotion that returns 0, a scan reads from the written
\* document the id, the level, the status, the tags, the confidence, the
\* transferability, the source case ids and the title that the run put in
\* the metadata. The front matter is written without quotes: an id of digits
\* with a leading zero, a title that is a boolean, a quoted or a bracketed
\* text, and a source case id that holds a comma or has blanks around it are
\* read back as other values, and the property fails.
C24_PromotedRoundTrip ==
  (last.op = "promote" /\ last.outcome = "ok") =>
    \A created \in {ScannedAt(last.target_path)} :
      /\ created.id = MetaGet(last.metadata, K_id)
      /\ created.level = MetaGet(last.metadata, K_level)
      /\ created.status = MetaGet(last.metadata, K_status)
      /\ created.tags = MetaGet(last.metadata, K_tags)
      /\ created.confidence = MetaGet(last.metadata, K_confidence)
      /\ created.transferability = MetaGet(last.metadata, K_transferability)
      /\ created.source_case_ids = MetaGet(last.metadata, K_source_case_ids)
      /\ created.title = MetaGet(last.metadata, K_title)

====
